---- MODULE Spec2Model ----
(***************************************************************************)
(* Multi-model risk-scoring pipeline of the grid cyber gateway             *)
(* (src/ai_engine): preprocessor, five scoring models, fusion engine and   *)
(* the AIPipeline orchestrator.                                            *)
(*                                                                         *)
(* Numbers.  The source computes in IEEE doubles; the model computes in    *)
(* fixed point on integers, truncating as integer division does:           *)
(*   voltage      0.001 p.u.      (1.0 p.u.  = 1000)                       *)
(*   frequency    0.1 Hz          (50.0 Hz   = 500)                        *)
(*   power_flow   0.1 MW          (100.0 MW  = 1000)                       *)
(*   time         1 ms, counted from Monday 00:00:00 local time            *)
(*   score, confidence            1/SC       (1.0 = SC = 10000)            *)
(*   fusion weight                0.01       (0.15 = 15)                   *)
(*   weighted risk before rounding  1/(100*SC)                             *)
(*   final_risk, confidence, contributions as reported  0.001              *)
(*   feature-vector component     1/FU       (1.0 = FU = 10000)            *)
(* Square roots are computed to about 15 significant bits.                 *)
(***************************************************************************)
EXTENDS Integers, Sequences, FiniteSets, TLC

\* ------------------------------------------------------------------------
\* Units
\* ------------------------------------------------------------------------
SC == 10^4
FU == 10^4
RiskUnit == 100 * SC
MsPerSecond == 10^3
MsPerHour == 3600 * MsPerSecond
MsPerDay == 24 * MsPerHour

\* ------------------------------------------------------------------------
\* Arithmetic helpers
\* ------------------------------------------------------------------------
Abs(x) == IF x < 0 THEN -x ELSE x
Min(a, b) == IF a < b THEN a ELSE b
Max(a, b) == IF a > b THEN a ELSE b

RECURSIVE SumSeq(_)
SumSeq(s) ==
    IF s = << >> THEN 0
    ELSE IF Len(s) = 1 THEN s[1]
    ELSE SumSeq(SubSeq(s, 1, Len(s) \div 2))
         + SumSeq(SubSeq(s, Len(s) \div 2 + 1, Len(s)))

\* the last n elements of s (Python's s[-n:], n > 0)
LastN(s, n) == IF Len(s) <= n THEN s ELSE SubSeq(s, Len(s) - n + 1, Len(s))

\* floor of the square root, by bisection on [lo, hi)
RECURSIVE IsqrtIn(_, _, _)
IsqrtIn(n, lo, hi) ==
    IF hi - lo <= 1 THEN lo
    ELSE LET mid == (lo + hi) \div 2
         IN  IF mid * mid <= n THEN IsqrtIn(n, mid, hi) ELSE IsqrtIn(n, lo, mid)

Isqrt(n) == IsqrtIn(n, 0, 46341)

\* the largest e such that n * 4^e < 2^30 (n > 0)
RECURSIVE NormExp(_)
NormExp(n) == IF n >= 2^28 THEN 0 ELSE 1 + NormExp(n * 4)

\* math.sqrt(n) as a mantissa and a binary exponent: sqrt(n) ~ m / 2^e
SqrtScaled(n, e) == [m |-> Isqrt(n * 4^e), e |-> e]
Sqrt(n) == IF n <= 0 THEN [m |-> 0, e |-> 0] ELSE SqrtScaled(n, NormExp(n))

\* x / y in units of 1/SC for x >= 0, y > 0, rounded to nearest as a float
\* division is, saturating at 1000.0: both operands are first shifted until
\* y fits 17 bits
RECURSIVE FitShift(_)
FitShift(y) == IF y < 2^17 THEN 1 ELSE 2 * FitShift(y \div 2)

ShiftedDiv(xs, ys) ==
    IF xs \div ys >= 1000 THEN 1000 * SC
    ELSE (xs \div ys) * SC + ((xs % ys) * SC + ys \div 2) \div ys

FixDiv(x, y) == ShiftedDiv(x \div FitShift(y), y \div FitShift(y))

\* x / (r1 * r2) in units of 1/SC, r1 and r2 values of Sqrt
DivByRoots(x, r1, r2) == FixDiv(x * 2^(r1.e + r2.e), r1.m * r2.m)
\* x / r in units of 1/SC, r a value of Sqrt
DivByRoot(x, r) == FixDiv(x * 2^r.e, r.m)

\* Python's round(x, 3) of a value held in units of 1/unit (unit a multiple
\* of 1000), to units of 0.001, ties to even
Round3(x, unit) ==
    LET step == unit \div 1000
        q    == x \div step
        r    == x % step
    IN  IF 2 * r > step THEN q + 1
        ELSE IF 2 * r < step THEN q
        ELSE IF q % 2 = 0 THEN q ELSE q + 1

\* ------------------------------------------------------------------------
\* Configuration (ai_config.py), in the units above
\* ------------------------------------------------------------------------
ModelNames == <<"anomaly", "fdia", "physics", "behavior", "memory">>
Models == {ModelNames[i] : i \in 1..5}

W_anomaly == 15
W_fdia == 35
W_physics == 25
W_behavior == 10
W_memory == 15
\* the configured weights with those of the FDIA and memory models exchanged
FusionWeightsExchanged ==
    [m \in Models |->
        IF m = "anomaly" THEN W_anomaly
        ELSE IF m = "fdia" THEN W_memory
        ELSE IF m = "physics" THEN W_physics
        ELSE IF m = "behavior" THEN W_behavior
        ELSE W_fdia]

FUSION_WEIGHTS ==
    [m \in Models |->
        CASE m = "anomaly"  -> W_anomaly
          [] m = "fdia"     -> W_fdia
          [] m = "physics"  -> W_physics
          [] m = "behavior" -> W_behavior
          [] m = "memory"   -> W_memory]

\* DECISION_THRESHOLDS, in units of 0.01
safe_threshold == 30
warning_threshold == 60

\* ANOMALY_CONFIG: z_score_threshold 2.5 = 5/2, deviation_threshold 0.15
rolling_window == 20
z_score_threshold_x2 == 5
deviation_threshold_pct == 15

\* FDIA_CONFIG: correlation_threshold 0.3
correlation_threshold_x10 == 3
temporal_window == 5
fdia_max_history == 50

\* PHYSICS_CONFIG
voltage_min == 950
voltage_max == 1050
frequency_min == 495
frequency_max == 505
\* breaker_off_power_tolerance 0.01 MW, in units of 0.01 MW
breaker_off_power_tolerance == 1

\* BEHAVIOR_CONFIG
normal_hours_start == 6
normal_hours_end == 22
max_switches_per_hour == 10
command_interval_min == 5
pattern_memory_size == 50
\* replay_time_tolerance 0.1 s, in ms
replay_time_tolerance == 100

\* MEMORY_CONFIG: similarity_threshold 0.85, feature weights 0.3, 0.3, 0.4
history_size == 100
similarity_threshold_pct == 85
fw_voltage_x10 == 3
fw_frequency_x10 == 3
fw_power_flow_x10 == 4

\* PREPROCESSING_CONFIG
norm_voltage_min == 800
norm_voltage_max == 1200
norm_frequency_min == 490
norm_frequency_max == 510
norm_power_flow_min == 0
norm_power_flow_max == 2000
default_voltage == 1000
default_frequency == 500
default_power_flow == 0
default_breaker_status == "OFF"

\* ------------------------------------------------------------------------
\* Inputs of analyze.  A telemetry field is absent, a number, or some
\* non-numeric value; breaker_status is a string or NoBreaker when the key
\* is absent; the timestamp is an ISO string that parses to v, is absent, or
\* is a value datetime.fromisoformat rejects.
\* ------------------------------------------------------------------------
NoBreaker == "<absent>"
Num(x) == [k |-> "num", v |-> x]
NoField == [k |-> "absent", v |-> 0]
NonNumeric == [k |-> "str", v |-> 0]
Iso(t) == [k |-> "iso", v |-> t]
NoTimestamp == [k |-> "absent", v |-> 0]
BadTimestamp == [k |-> "garbage", v |-> 0]

Dict(v, f, p, b, t) ==
    [isdict |-> TRUE, voltage |-> v, frequency |-> f, power_flow |-> p,
     breaker_status |-> b, timestamp |-> t]
NotADict == [Dict(NoField, NoField, NoField, NoBreaker, NoTimestamp)
                EXCEPT !.isdict = FALSE]
Sample(v, f, p, b, t) == Dict(Num(v), Num(f), Num(p), b, Iso(t))

\* ------------------------------------------------------------------------
\* DataPreprocessor (preprocessing.py)
\* ------------------------------------------------------------------------
OK == "ok"

\* _validate_input without its breaker_status check
ValidateInputNoBreakerCheck(input_data) ==
    IF ~input_data.isdict THEN "Input must be a dictionary"
    ELSE IF /\ input_data.voltage.k = "absent"
            /\ input_data.frequency.k = "absent"
            /\ input_data.power_flow.k = "absent"
         THEN "At least one telemetry field required"
    ELSE IF input_data.voltage.k = "str" THEN "Voltage must be numeric"
    ELSE IF input_data.frequency.k = "str" THEN "Frequency must be numeric"
    ELSE IF input_data.power_flow.k = "str" THEN "Power flow must be numeric"
    ELSE OK

\* the PreprocessingError message raised, or OK
ValidateInput(input_data) ==
    IF ~input_data.isdict THEN "Input must be a dictionary"
    ELSE IF /\ input_data.voltage.k = "absent"
            /\ input_data.frequency.k = "absent"
            /\ input_data.power_flow.k = "absent"
         THEN "At least one telemetry field required"
    ELSE IF input_data.voltage.k = "str" THEN "Voltage must be numeric"
    ELSE IF input_data.frequency.k = "str" THEN "Frequency must be numeric"
    ELSE IF input_data.power_flow.k = "str" THEN "Power flow must be numeric"
    ELSE IF input_data.breaker_status \notin {NoBreaker, "ON", "OFF"}
         THEN "Breaker status must be 'ON' or 'OFF'"
    ELSE OK

\* complete_data: defaults filled in, a missing timestamp set to now
HandleMissingFields(data, now) ==
    [voltage        |-> IF data.voltage.k = "absent"
                        THEN default_voltage ELSE data.voltage.v,
     frequency      |-> IF data.frequency.k = "absent"
                        THEN default_frequency ELSE data.frequency.v,
     power_flow     |-> IF data.power_flow.k = "absent"
                        THEN default_power_flow ELSE data.power_flow.v,
     breaker_status |-> IF data.breaker_status = NoBreaker
                        THEN default_breaker_status ELSE data.breaker_status,
     timestamp      |-> IF data.timestamp.k = "absent"
                        THEN Iso(now) ELSE data.timestamp]

Clamp(x, lo, hi) == Max(lo, Min(hi, x))
Normalize(x, lo, hi) == ((Clamp(x, lo, hi) - lo) * SC) \div (hi - lo)

NormalizeValues(data) ==
    [voltage_norm    |-> Normalize(data.voltage, norm_voltage_min, norm_voltage_max),
     frequency_norm  |-> Normalize(data.frequency, norm_frequency_min,
                                   norm_frequency_max),
     power_flow_norm |-> Normalize(data.power_flow, norm_power_flow_min,
                                   norm_power_flow_max)]

ExtractTemporalFeatures(data, now) ==
    LET t    == IF data.timestamp.k = "iso" THEN data.timestamp.v ELSE now
        hour == (t \div MsPerHour) % 24
        wday == (t \div MsPerDay) % 7
    IN  [hour |-> hour, day_of_week |-> wday, is_weekend |-> wday >= 5,
         is_night |-> (hour < normal_hours_start \/ hour >= normal_hours_end),
         timestamp_unix |-> t]

\* last_telemetry is << >> (None) or a one-element sequence
ComputeDeltas(data, last_telemetry) ==
    IF last_telemetry = << >>
    THEN [delta_voltage |-> 0, delta_frequency |-> 0, delta_power_flow |-> 0,
          delta_time |-> 0, breaker_changed |-> FALSE]
    ELSE LET last == last_telemetry[1]
         IN  [delta_voltage    |-> data.voltage - last.voltage,
              delta_frequency  |-> data.frequency - last.frequency,
              delta_power_flow |-> data.power_flow - last.power_flow,
              delta_time       |->
                  IF data.timestamp.k = "iso" /\ last.timestamp.k = "iso"
                  THEN data.timestamp.v - last.timestamp.v ELSE 0,
              breaker_changed  |-> data.breaker_status # last.breaker_status]

HistoryEntry(data) ==
    [voltage |-> data.voltage, frequency |-> data.frequency,
     power_flow |-> data.power_flow, timestamp |-> data.timestamp]

\* append, then drop the newest entry when the list is over its capacity:
\* pop() where the code has pop(0)
AppendBoundedDropNewest(list, x, capacity) ==
    LET appended == Append(list, x)
    IN  IF Len(appended) > capacity
        THEN SubSeq(appended, 1, Len(appended) - 1) ELSE appended

\* append, then drop the oldest entry when the list is over its capacity
AppendBounded(list, x, capacity) ==
    LET appended == Append(list, x)
    IN  IF Len(appended) > capacity THEN Tail(appended) ELSE appended

UpdateTelemetryHistory(telemetry_history, data) ==
    AppendBounded(telemetry_history, HistoryEntry(data), history_size)

\* the preprocessed sample, and the preprocessor's next state
PreprocessComplete(p, complete, now) ==
    LET norm     == NormalizeValues(complete)
        temporal == ExtractTemporalFeatures(complete, now)
        deltas   == ComputeDeltas(complete, p.last_telemetry)
    IN  [data |->
            [voltage          |-> complete.voltage,
             frequency        |-> complete.frequency,
             power_flow       |-> complete.power_flow,
             breaker_status   |-> complete.breaker_status,
             timestamp        |-> complete.timestamp,
             voltage_norm     |-> norm.voltage_norm,
             frequency_norm   |-> norm.frequency_norm,
             power_flow_norm  |-> norm.power_flow_norm,
             hour             |-> temporal.hour,
             day_of_week      |-> temporal.day_of_week,
             is_weekend       |-> temporal.is_weekend,
             is_night         |-> temporal.is_night,
             timestamp_unix   |-> temporal.timestamp_unix,
             delta_voltage    |-> deltas.delta_voltage,
             delta_frequency  |-> deltas.delta_frequency,
             delta_power_flow |-> deltas.delta_power_flow,
             delta_time       |-> deltas.delta_time,
             breaker_changed  |-> deltas.breaker_changed],
         last_telemetry    |-> <<complete>>,
         telemetry_history |-> UpdateTelemetryHistory(p.telemetry_history, complete)]

Preprocess(p, input_data, now) ==
    PreprocessComplete(p, HandleMissingFields(input_data, now), now)

\* mean and standard deviation of the last `window` samples of a field, as
\* exact sums: mean = s / n, std_dev = sqrt(n * q - s * s) / n
RollingStatistics(telemetry_history, field, window) ==
    IF Len(telemetry_history) < 2 THEN [n |-> 0, s |-> 0, d |-> 0]
    ELSE LET samples == LastN(telemetry_history, window)
             n == Len(samples)
             s == SumSeq([i \in 1..n |-> samples[i][field]])
             q == SumSeq([i \in 1..n |-> samples[i][field] * samples[i][field]])
         IN  [n |-> n, s |-> s, d |-> n * q - s * s]

\* (x - mean) ** 2 raises OverflowError when the deviation exceeds the square
\* root of the largest float (1.34e154).  The model scales that limit down to
\* 1000 units of every field, far above the telemetry the other inputs carry.
SquareOverflowsAt == 1000 * 1000

\* some sample of the window deviates from the mean s / n by the limit or more
DeviationOverflows(samples, field, s) ==
    \E i \in 1..Len(samples) :
        Abs(Len(samples) * samples[i][field] - s) >= Len(samples) * SquareOverflowsAt

\* get_rolling_statistics raises OverflowError for one of the three fields
StatisticsOverflow(telemetry_history) ==
    /\ Len(telemetry_history) >= 2
    /\ \E field \in {"voltage", "frequency", "power_flow"} :
           DeviationOverflows(LastN(telemetry_history, rolling_window), field,
               SumSeq([i \in 1..Len(LastN(telemetry_history, rolling_window)) |->
                          LastN(telemetry_history, rolling_window)[i][field]]))

\* ------------------------------------------------------------------------
\* Model outputs.  A reason is the tag of the check that produced the text
\* and the count the text appends to it (0 when it appends none).
\* ------------------------------------------------------------------------
Reason(tag, extra) == [tag |-> tag, extra |-> extra]
Check(score, tag) == [score |-> score, tag |-> tag]
NoFinding == Check(0, "")
Output(score, confidence, reason) ==
    [score |-> score, confidence |-> confidence, reason |-> reason]

\* the checks that fired (score > 0), in the order they were run
Fired(checks) == SelectSeq(checks, LAMBDA c : c.score > 0)

RECURSIVE MaxScore(_)
MaxScore(checks) ==
    IF checks = << >> THEN 0 ELSE Max(Head(checks).score, MaxScore(Tail(checks)))
RECURSIVE MinScore(_)
MinScore(checks) ==
    IF Len(checks) = 1 THEN Head(checks).score
    ELSE Min(Head(checks).score, MinScore(Tail(checks)))

\* ------------------------------------------------------------------------
\* MODEL-1 AnomalyDetectionModel (models/anomaly_model.py)
\* ------------------------------------------------------------------------
\* |value - mean| * n
AbsDevN(value, stats) == Abs(stats.n * value - stats.s)

\* z = |value - mean| / std_dev, 0 when std_dev = 0
ComputeZScore(value, stats) ==
    IF stats.d = 0 THEN 0
    ELSE DivByRoot(AbsDevN(value, stats), Sqrt(stats.d))

\* |value - mean| / |mean|, 0 when mean = 0
ComputeDeviationPercentage(value, stats) ==
    IF stats.s = 0 THEN 0 ELSE FixDiv(AbsDevN(value, stats), Abs(stats.s))

\* the finding for a field whose z-score is z and whose deviation is dev
AnomalyFinding(field, value, stats, z, dev) ==
    IF 2 * z > z_score_threshold_x2 * SC
    THEN Check(Min(SC, z \div z_score_threshold_x2), field \o "_zscore")
    ELSE IF 100 * AbsDevN(value, stats) > deviation_threshold_pct * Abs(stats.s)
    THEN Check(Min(SC, (dev * 100) \div (2 * deviation_threshold_pct)),
               field \o "_deviation")
    ELSE NoFinding

EvaluateAnomaly(field, value, stats) ==
    AnomalyFinding(field, value, stats, ComputeZScore(value, stats),
                   ComputeDeviationPercentage(value, stats))

\* the model's output for the anomalies found
AnomalyOutput(found) ==
    IF found = << >>
    THEN Output(0, 9500, Reason("anomaly_none", 0))
    ELSE Output(MaxScore(found), Min(9500, 6000 + Len(found) * 1500),
                Reason(found[1].tag, IF Len(found) > 1 THEN Len(found) ELSE 0))

AnomalyAnalyze(data, rolling_stats) ==
    AnomalyOutput(Fired(<<
        EvaluateAnomaly("voltage", data.voltage, rolling_stats.voltage),
        EvaluateAnomaly("frequency", data.frequency, rolling_stats.frequency),
        EvaluateAnomaly("power_flow", data.power_flow, rolling_stats.power_flow)>>))

\* ------------------------------------------------------------------------
\* MODEL-2 FDIADetectionModel (models/fdia_model.py)
\* ------------------------------------------------------------------------
Triple(data) ==
    [voltage |-> data.voltage, frequency |-> data.frequency,
     power_flow |-> data.power_flow]

FdiaUpdateHistory(history, data) ==
    AppendBounded(history, Triple(data), fdia_max_history)

\* |Pearson correlation| of two equally long lists, 0 when the denominator is 0
\* num / sqrt(dx * dy), each scaled by n^2
CorrelationOf(num, dx, dy) ==
    IF dx = 0 \/ dy = 0 THEN 0 ELSE DivByRoots(num, Sqrt(dx), Sqrt(dy))

\* the correlation from the sums of x, y, x * y, x * x and y * y
CorrelationFromSums(n, sx, sy, sxy, sxx, syy) ==
    CorrelationOf(Abs(n * sxy - sx * sy), n * sxx - sx * sx, n * syy - sy * sy)

ComputeCorrelation(x, y) ==
    IF Len(x) # Len(y) \/ Len(x) < 2 THEN 0
    ELSE CorrelationFromSums(Len(x), SumSeq(x), SumSeq(y),
                             SumSeq([i \in 1..Len(x) |-> x[i] * y[i]]),
                             SumSeq([i \in 1..Len(x) |-> x[i] * x[i]]),
                             SumSeq([i \in 1..Len(x) |-> y[i] * y[i]]))

\* the finding for a voltage-frequency correlation of corr
CorrelationFinding(corr) ==
    IF 10 * corr < correlation_threshold_x10 * SC
    THEN Check(SC - (corr * 10) \div correlation_threshold_x10, "fdia_correlation")
    ELSE NoFinding

\* the correlation of voltage and frequency over recent_window
WindowCorrelation(recent_window) ==
    ComputeCorrelation(
        [i \in 1..Len(recent_window) |-> recent_window[i].voltage],
        [i \in 1..Len(recent_window) |-> recent_window[i].frequency])

CheckCorrelationMismatch(history) ==
    IF Len(history) < 5 THEN NoFinding
    ELSE CorrelationFinding(WindowCorrelation(LastN(history, temporal_window)))

\* _check_temporal_consistency asking for three significant changes
CheckTemporalConsistencyAllThree(data) ==
    IF /\ Abs(data.delta_voltage) > 50
       /\ Abs(data.delta_frequency) > 2
       /\ Abs(data.delta_power_flow) > 100
    THEN Check(SC, "fdia_temporal")
    ELSE NoFinding

CheckTemporalConsistency(data) ==
    LET significant_changes ==
            (IF Abs(data.delta_voltage) > 50 THEN 1 ELSE 0)
          + (IF Abs(data.delta_frequency) > 2 THEN 1 ELSE 0)
          + (IF Abs(data.delta_power_flow) > 100 THEN 1 ELSE 0)
    IN  IF significant_changes >= 2
        THEN Check(Min(SC, (significant_changes * SC) \div 3 + 3000),
                   "fdia_temporal")
        ELSE NoFinding

Opposite(a, b) == (a > 0 /\ b < 0) \/ (a < 0 /\ b > 0)

\* _check_multi_signal_coordination from the second sample on
CheckMultiSignalCoordinationFromSecond(data, history) ==
    LET dv == data.delta_voltage
        dp == data.delta_power_flow
    IN  IF Len(history) < 2 THEN NoFinding
        ELSE IF Abs(dv) > 30 /\ Abs(dp) > 50
        THEN IF Opposite(dv, dp) THEN Check(7000, "fdia_opposite")
             ELSE IF \/ 100 * Abs(dp) > 2 * 3 * Abs(dv)
                     \/ 3 * 100 * Abs(dp) < 2 * Abs(dv)
             THEN Check(6000, "fdia_magnitude")
             ELSE NoFinding
        ELSE NoFinding

\* history is the model's own history, the current sample already appended
CheckMultiSignalCoordination(data, history) ==
    LET dv == data.delta_voltage
        dp == data.delta_power_flow
    IN  IF Len(history) < 3 THEN NoFinding
        ELSE IF Abs(dv) > 30 /\ Abs(dp) > 50
        THEN IF Opposite(dv, dp) THEN Check(7000, "fdia_opposite")
             \* |dp / dv| in MW per p.u. is 100 |dp| / |dv| in the model's units
             ELSE IF \/ 100 * Abs(dp) > 2 * 3 * Abs(dv)
                     \/ 3 * 100 * Abs(dp) < 2 * Abs(dv)
             THEN Check(6000, "fdia_magnitude")
             ELSE NoFinding
        ELSE NoFinding

\* the model's output for the indicators found
FdiaOutput(found) ==
    IF found = << >>
    THEN Output(0, 8500, Reason("fdia_none", 0))
    ELSE Output(SumSeq([i \in 1..Len(found) |-> found[i].score]) \div Len(found),
                Min(9500, 7000 + Len(found) * 1000),
                Reason(IF Len(found) = 1 THEN found[1].tag
                       ELSE "fdia_coordinated", 0))

FdiaAnalyze(data, telemetry_history, history) ==
    FdiaOutput(Fired(<<CheckCorrelationMismatch(telemetry_history),
                       CheckTemporalConsistency(data),
                       CheckMultiSignalCoordination(data, history)>>))

\* ------------------------------------------------------------------------
\* MODEL-3 PhysicsValidationModel (models/physics_model.py)
\* ------------------------------------------------------------------------
CheckBreakerPowerConsistency(data) ==
    IF /\ data.breaker_status = "OFF"
       /\ Abs(data.power_flow) * 10 > breaker_off_power_tolerance
    THEN Check(SC, "physics_breaker_power")
    ELSE NoFinding

\* _check_voltage_bounds with the normalisation range as the bounds
CheckVoltageBoundsOfNormalisation(data) ==
    IF data.voltage < norm_voltage_min
    THEN Check(Min(SC, ((norm_voltage_min - data.voltage) * 5 * SC)
                           \div norm_voltage_min), "physics_voltage_low")
    ELSE IF data.voltage > norm_voltage_max
    THEN Check(Min(SC, ((data.voltage - norm_voltage_max) * 5 * SC)
                           \div norm_voltage_max), "physics_voltage_high")
    ELSE NoFinding

CheckVoltageBounds(data) ==
    IF data.voltage < voltage_min
    THEN Check(Min(SC, ((voltage_min - data.voltage) * 5 * SC) \div voltage_min),
               "physics_voltage_low")
    ELSE IF data.voltage > voltage_max
    THEN Check(Min(SC, ((data.voltage - voltage_max) * 5 * SC) \div voltage_max),
               "physics_voltage_high")
    ELSE NoFinding

CheckFrequencyBounds(data) ==
    IF data.frequency < frequency_min
    THEN Check(Min(SC, ((frequency_min - data.frequency) * 10 * SC)
                           \div frequency_min), "physics_frequency_low")
    ELSE IF data.frequency > frequency_max
    THEN Check(Min(SC, ((data.frequency - frequency_max) * 10 * SC)
                           \div frequency_max), "physics_frequency_high")
    ELSE NoFinding

CheckPowerVoltageCausality(data) ==
    IF /\ Abs(data.delta_voltage) > 20
       /\ Abs(data.delta_power_flow) > 30
       /\ Opposite(data.delta_voltage, data.delta_power_flow)
    THEN Check(6000, "physics_causality")
    ELSE NoFinding

CheckPhysicalImpossibilities(data) ==
    IF data.voltage < 10 /\ data.frequency > 10
    THEN Check(SC, "physics_frequency_without_voltage")
    ELSE IF data.voltage < 10 /\ Abs(data.power_flow) > 10
    THEN Check(SC, "physics_power_without_voltage")
    \* |delta_frequency| / delta_time > 2.0 Hz/s
    ELSE IF /\ data.delta_time > 0
            /\ Abs(data.delta_frequency) * 100 > 2 * data.delta_time
    THEN Check(8000, "physics_frequency_rate")
    ELSE NoFinding

PhysicsFinalScore(violations) == MaxScore(violations)

\* the model's output for the violations found
PhysicsOutput(violations) ==
    IF violations = << >>
    THEN Output(0, 9800, Reason("physics_none", 0))
    ELSE Output(PhysicsFinalScore(violations), 9500,
                Reason(violations[1].tag, Len(violations) - 1))

PhysicsAnalyze(data) ==
    PhysicsOutput(Fired(<<CheckBreakerPowerConsistency(data),
                          CheckVoltageBounds(data),
                          CheckFrequencyBounds(data),
                          CheckPowerVoltageCausality(data),
                          CheckPhysicalImpossibilities(data)>>))

\* ------------------------------------------------------------------------
\* MODEL-4 BehaviorLearningModel (models/behavior_model.py)
\* ------------------------------------------------------------------------
\* _check_replay_attack comparing with all but the newest recorded timestamp
CheckReplayAttackSkipNewest(data, timestamp_history) ==
    IF \E i \in 1..(Len(timestamp_history) - 1) :
           Abs(data.timestamp_unix - timestamp_history[i]) < replay_time_tolerance
    THEN Check(9000, "behavior_replay")
    ELSE NoFinding

CheckReplayAttack(data, timestamp_history) ==
    IF \E i \in 1..Len(timestamp_history) :
           Abs(data.timestamp_unix - timestamp_history[i]) < replay_time_tolerance
    THEN Check(9000, "behavior_replay")
    ELSE NoFinding

CheckOffHoursOperation(data) ==
    IF data.breaker_changed /\ data.is_night THEN Check(5000, "behavior_night")
    ELSE IF data.breaker_changed /\ data.is_weekend
    THEN Check(4000, "behavior_weekend")
    ELSE NoFinding

\* the switches of the last hour without the toggle of the current sample
RecentSwitchesBeforeToggle(data, switch_timestamps) ==
    SelectSeq(switch_timestamps, LAMBDA t : t > data.timestamp_unix - MsPerHour)

\* switch_timestamps after the check: the toggle appended, then pruned to the
\* hour before the current sample
RecentSwitches(data, switch_timestamps) ==
    LET appended == IF data.breaker_changed
                    THEN Append(switch_timestamps, data.timestamp_unix)
                    ELSE switch_timestamps
    IN  SelectSeq(appended, LAMBDA t : t > data.timestamp_unix - MsPerHour)

CheckExcessiveSwitching(recent_switches) ==
    IF Len(recent_switches) > max_switches_per_hour
    THEN Check(Min(SC, (Len(recent_switches) * SC) \div (max_switches_per_hour * 2)),
               "behavior_switching")
    ELSE NoFinding

CheckRapidCommands(data) ==
    IF data.breaker_changed /\ data.delta_time < command_interval_min * MsPerSecond
    THEN Check(6000, "behavior_rapid")
    ELSE NoFinding

CommandEntry(data) ==
    [timestamp |-> data.timestamp_unix, hour |-> data.hour,
     breaker_status |-> data.breaker_status,
     breaker_changed |-> data.breaker_changed]

BehaviorUpdateCommands(command_history, data) ==
    AppendBounded(command_history, CommandEntry(data), pattern_memory_size)

\* _update_history keeping every timestamp
BehaviorUpdateTimestampsUnbounded(timestamp_history, data) ==
    Append(timestamp_history, data.timestamp_unix)

BehaviorUpdateTimestamps(timestamp_history, data) ==
    AppendBounded(timestamp_history, data.timestamp_unix, pattern_memory_size)

\* the model's output for the anomalies found
BehaviorOutput(found) ==
    IF found = << >>
    THEN Output(0, 7500, Reason("behavior_none", 0))
    ELSE Output(MaxScore(found), Min(9000, 6500 + Len(found) * 1000),
                Reason(found[1].tag, Len(found) - 1))

\* the model's output and its next state, recent_switches being the
\* switch_timestamps after the excessive-switching check
BehaviorAnalyzeWith(data, p, recent_switches) ==
    [out |-> BehaviorOutput(Fired(<<
                 CheckReplayAttack(data, p.timestamp_history),
                 CheckOffHoursOperation(data),
                 CheckExcessiveSwitching(recent_switches),
                 CheckRapidCommands(data)>>)),
     switch_timestamps |-> recent_switches,
     command_history   |-> BehaviorUpdateCommands(p.command_history, data),
     timestamp_history |-> BehaviorUpdateTimestamps(p.timestamp_history, data)]

BehaviorAnalyze(data, p) ==
    BehaviorAnalyzeWith(data, p, RecentSwitches(data, p.switch_timestamps))

\* ------------------------------------------------------------------------
\* MODEL-5 MemoryModel (models/memory_model.py)
\* ------------------------------------------------------------------------
MemoryUpdate(telemetry_memory, data) ==
    AppendBounded(telemetry_memory, Triple(data), history_size)

\* (voltage * 0.3, frequency / 50 * 0.3, power_flow / 100 * 0.4), in 1/FU
CreateFeatureVector(data) ==
    <<data.voltage * fw_voltage_x10,
      data.frequency * 2 * fw_frequency_x10,
      data.power_flow * fw_power_flow_x10>>

Dot(a, b) == a[1] * b[1] + a[2] * b[2] + a[3] * b[3]

\* dot / (|vec1| * |vec2|) in 1/SC, 0 when a magnitude is 0; the quotient
\* is not clamped
Cosine(dot_product, mag1, mag2) ==
    IF mag1.m = 0 \/ mag2.m = 0 THEN 0
    ELSE IF dot_product < 0 THEN -DivByRoots(-dot_product, mag1, mag2)
    ELSE DivByRoots(dot_product, mag1, mag2)

CosineSimilarity(vec1, vec2) ==
    Cosine(Dot(vec1, vec2), Sqrt(Dot(vec1, vec1)), Sqrt(Dot(vec2, vec2)))

\* sqrt of the sum of squared differences, as Sqrt's mantissa and exponent
EuclideanDistance(vec1, vec2) ==
    LET d == <<vec1[1] - vec2[1], vec1[2] - vec2[2], vec1[3] - vec2[3]>>
    IN  Sqrt(Dot(d, d))

InitialAttackSignatures ==
    << [name |-> "FDIA coordinated injection", vector |-> <<3500, 10500, 4500>>],
       [name |-> "Voltage manipulation",       vector |-> <<4500, 10000, 3000>>],
       [name |-> "Zero-day pattern",           vector |-> <<2500, 9500, 5000>>] >>

\* the first signature, in table order, more similar than the threshold
RECURSIVE CheckAttackSignaturesFrom(_, _)
\* the loop's step for a signature whose similarity is known
SignatureStep(current_vector, signatures, similarity) ==
    IF 100 * similarity > similarity_threshold_pct * SC
    THEN Check(similarity, "memory_signature")
    ELSE CheckAttackSignaturesFrom(current_vector, Tail(signatures))

CheckAttackSignaturesFrom(current_vector, signatures) ==
    IF signatures = << >> THEN NoFinding
    ELSE SignatureStep(current_vector, signatures,
             CosineSimilarity(current_vector, Head(signatures).vector))

CheckAttackSignatures(data, attack_signatures) ==
    CheckAttackSignaturesFrom(CreateFeatureVector(data), attack_signatures)

\* the number of entries of recent_history more than 0.98 similar
HighSimilarityCount(current_vector, recent_history) ==
    Cardinality({i \in 1..Len(recent_history) :
        100 * CosineSimilarity(current_vector,
                               CreateFeatureVector(recent_history[i])) > 98 * SC})

\* the finding with the score count / 20
RepetitionFindingOfTwenty(high_similarity_count) ==
    IF high_similarity_count > 3
    THEN Check(Min(SC, (high_similarity_count * SC) \div 20), "memory_repetition")
    ELSE NoFinding

RepetitionFinding(high_similarity_count) ==
    IF high_similarity_count > 3
    THEN Check(Min(SC, (high_similarity_count * SC) \div 10), "memory_repetition")
    ELSE NoFinding

CheckPatternRepetition(data, history) ==
    IF Len(history) < 10 THEN NoFinding
    ELSE RepetitionFinding(HighSimilarityCount(CreateFeatureVector(data),
                                               LastN(history, 20)))

\* the mean of the memory's feature vectors
ComputeBaseline(telemetry_memory) ==
    LET n == Len(telemetry_memory)
        total(k) == SumSeq([i \in 1..n |-> CreateFeatureVector(telemetry_memory[i])[k]])
    IN  IF n = 0 THEN <<3000, 10000, 0>>
        ELSE <<total(1) \div n, total(2) \div n, total(3) \div n>>

\* min(1.0, distance / 0.5)
NormalizedDistance(distance) == Min(SC, FixDiv(2 * distance.m, 2^distance.e * FU))

BaselineFinding(normalized_distance) ==
    IF 10 * normalized_distance > 6 * SC
    THEN Check(normalized_distance, "memory_baseline")
    ELSE NoFinding

CheckBaselineDeviation(data, telemetry_memory) ==
    IF Len(telemetry_memory) < 20 THEN NoFinding
    ELSE BaselineFinding(NormalizedDistance(
             EuclideanDistance(CreateFeatureVector(data),
                               ComputeBaseline(telemetry_memory))))

\* telemetry_memory is the memory after MemoryUpdate
\* the model's output for the patterns found
MemoryOutput(found, telemetry_memory) ==
    IF found = << >>
    THEN Output(0, 8000, Reason("memory_none", 0))
    ELSE Output(MaxScore(found),
                Min(9500, 7000 + (Len(telemetry_memory) * 2000) \div 100),
                Reason(found[1].tag, 0))

MemoryAnalyze(data, telemetry_history, telemetry_memory, attack_signatures) ==
    MemoryOutput(Fired(<<CheckAttackSignatures(data, attack_signatures),
                         CheckPatternRepetition(data, telemetry_history),
                         CheckBaselineDeviation(data, telemetry_memory)>>),
                 telemetry_memory)

\* ------------------------------------------------------------------------
\* FusionEngine (fusion_engine.py) and AIEngineConfig.get_decision
\* ------------------------------------------------------------------------
\* weights.get(model_name, 0.0)
WeightOf(weights, m) == IF m \in DOMAIN weights THEN weights[m] ELSE 0

\* sum over the five models, in 1/RiskUnit, of weight * value
WeightedSum(weights, values) ==
    SumSeq([i \in 1..5 |-> WeightOf(weights, ModelNames[i]) * values[ModelNames[i]]])

CalculateWeightedRisk(weights, scores) ==
    Max(0, Min(RiskUnit, WeightedSum(weights, scores)))

CalculateWeightedConfidence(weights, confidences) ==
    Max(0, Min(RiskUnit, WeightedSum(weights, confidences)))

\* get_decision with the two threshold keys exchanged
GetDecisionSwapped(risk_score) ==
    IF risk_score < warning_threshold * SC THEN "SAFE"
    ELSE IF risk_score < safe_threshold * SC THEN "WARNING"
    ELSE "CRITICAL"

\* risk_score in 1/RiskUnit against the thresholds in 0.01
GetDecision(risk_score) ==
    IF risk_score < safe_threshold * SC THEN "SAFE"
    ELSE IF risk_score < warning_threshold * SC THEN "WARNING"
    ELSE "CRITICAL"

\* the last model, in dictionary order, whose score no other model exceeds
IdentifyPrimaryThreatLast(scores) ==
    LET best == CHOOSE i \in 1..5 :
                    /\ \A j \in 1..5 : scores[ModelNames[j]] <= scores[ModelNames[i]]
                    /\ \A j \in (i + 1)..5 :
                           scores[ModelNames[j]] < scores[ModelNames[i]]
    IN  ModelNames[best]

\* max(scores.items(), key=score): the first model, in dictionary order,
\* whose score no other model exceeds
IdentifyPrimaryThreat(scores) ==
    LET best == CHOOSE i \in 1..5 :
                    /\ \A j \in 1..5 : scores[ModelNames[j]] <= scores[ModelNames[i]]
                    /\ \A j \in 1..(i - 1) :
                           scores[ModelNames[j]] < scores[ModelNames[i]]
    IN  ModelNames[best]

\* _calculate_contributions reading the configured weights
CalculateContributionsConfigured(weights, scores) ==
    [m \in Models |-> Round3(WeightOf(FUSION_WEIGHTS, m) * scores[m], RiskUnit)]

CalculateContributions(weights, scores) ==
    [m \in Models |-> Round3(WeightOf(weights, m) * scores[m], RiskUnit)]

GenerateSafeExplanation(model_outputs, scores) ==
    LET Minor(m) == 10 * scores[m] > SC /\ 10 * scores[m] < 3 * SC
        minor_concerns == SelectSeq(ModelNames, Minor)
    IN  IF minor_concerns # << >>
        THEN [kind |-> "safe_minor_variance",
              reasons |-> <<model_outputs[minor_concerns[1]].reason>>, count |-> 0]
        ELSE [kind |-> "safe_no_threats", reasons |-> << >>, count |-> 0]

\* _generate_warning_explanation citing the last supporting model
GenerateWarningExplanationLast(primary_threat, model_outputs, scores) ==
    LET Supports(m) == m # primary_threat /\ 10 * scores[m] > 2 * SC
        supporting == SelectSeq(ModelNames, Supports)
        primary_reason == model_outputs[primary_threat].reason
    IN  IF supporting # << >>
        THEN [kind |-> "warning_supported",
              reasons |-> <<primary_reason,
                            model_outputs[supporting[Len(supporting)]].reason>>,
              count |-> 0]
        ELSE [kind |-> "warning", reasons |-> <<primary_reason>>, count |-> 0]

GenerateWarningExplanation(primary_threat, model_outputs, scores) ==
    LET Supports(m) == m # primary_threat /\ 10 * scores[m] > 2 * SC
        supporting == SelectSeq(ModelNames, Supports)
        primary_reason == model_outputs[primary_threat].reason
    IN  IF supporting # << >>
        THEN [kind |-> "warning_supported",
              reasons |-> <<primary_reason, model_outputs[supporting[1]].reason>>,
              count |-> 0]
        ELSE [kind |-> "warning", reasons |-> <<primary_reason>>, count |-> 0]

GenerateCriticalExplanation(primary_threat, model_outputs, scores) ==
    LET High(m) == 10 * scores[m] > 5 * SC
        high_threats == SelectSeq(ModelNames, High)
        primary_reason == model_outputs[primary_threat].reason
    IN  IF Len(high_threats) > 1
        THEN [kind |-> "critical_multiple", reasons |-> <<primary_reason>>,
              count |-> Len(high_threats)]
        ELSE [kind |-> "critical", reasons |-> <<primary_reason>>, count |-> 0]

GenerateExplanation(decision, primary_threat, model_outputs, scores) ==
    IF decision = "SAFE" THEN GenerateSafeExplanation(model_outputs, scores)
    ELSE IF decision = "WARNING"
    THEN GenerateWarningExplanation(primary_threat, model_outputs, scores)
    ELSE GenerateCriticalExplanation(primary_threat, model_outputs, scores)

\* the fusion result, from the risk, the confidence and the primary threat
FusionResult(weights, model_outputs, scores, final_risk, confidence, primary_threat) ==
    [final_risk           |-> Round3(final_risk, RiskUnit),
     confidence           |-> Round3(confidence, RiskUnit),
     decision             |-> GetDecision(final_risk),
     explanation          |-> GenerateExplanation(GetDecision(final_risk),
                                                 primary_threat, model_outputs,
                                                 scores),
     model_contributions  |-> CalculateContributions(weights, scores),
     primary_threat       |-> primary_threat,
     primary_threat_score |-> Round3(scores[primary_threat], SC)]

FuseScores(weights, model_outputs, scores, confidences) ==
    FusionResult(weights, model_outputs, scores,
                 CalculateWeightedRisk(weights, scores),
                 CalculateWeightedConfidence(weights, confidences),
                 IdentifyPrimaryThreat(scores))

Fuse(weights, model_outputs) ==
    FuseScores(weights, model_outputs,
               [m \in Models |-> model_outputs[m].score],
               [m \in Models |-> model_outputs[m].confidence])

RECURSIVE SumValues(_)
SumValues(d) ==
    IF DOMAIN d = {} THEN 0
    ELSE LET k == CHOOSE x \in DOMAIN d : TRUE
         IN  d[k] + SumValues([x \in DOMAIN d \ {k} |-> d[x]])

\* the check update_weights makes before it touches the weights
WeightsRejected(new_weights) == Abs(SumValues(new_weights) - 100) > 1

\* dict.update
DictUpdate(old, new) ==
    [k \in DOMAIN old \cup DOMAIN new |-> IF k \in DOMAIN new THEN new[k] ELSE old[k]]

\* update_weights with the dictionary updated before the sum is checked
UpdateWeightsThenValidate(weights, new_weights) ==
    [weights |-> DictUpdate(weights, new_weights),
     raised  |-> WeightsRejected(new_weights)]

\* FusionEngine.update_weights: the weights afterwards, and whether it raised
UpdateWeights(weights, new_weights) ==
    IF WeightsRejected(new_weights)
    THEN [weights |-> weights, raised |-> TRUE]
    ELSE [weights |-> DictUpdate(weights, new_weights), raised |-> FALSE]

\* ------------------------------------------------------------------------
\* AIPipeline (ai_pipeline.py)
\* ------------------------------------------------------------------------
NewPipeline ==
    [last_telemetry    |-> << >>,
     telemetry_history |-> << >>,
     fdia_history      |-> << >>,
     command_history   |-> << >>,
     timestamp_history |-> << >>,
     switch_timestamps |-> << >>,
     telemetry_memory  |-> << >>,
     attack_signatures |-> InitialAttackSignatures,
     weights           |-> FUSION_WEIGHTS,
     analysis_count    |-> 0]

\* the rolling statistics _execute_models hands to the anomaly model
RollingStats(telemetry_history) ==
    [voltage    |-> RollingStatistics(telemetry_history, "voltage", rolling_window),
     frequency  |-> RollingStatistics(telemetry_history, "frequency",
                                      rolling_window),
     power_flow |-> RollingStatistics(telemetry_history, "power_flow",
                                      rolling_window)]

\* the five outputs and the models' next states, given the FDIA history and
\* the telemetry memory after their updates and what the behavior model did
ExecuteModelsWith(p, data, telemetry_history, fdia_history, behavior, memory) ==
    [outputs |->
        [anomaly  |-> AnomalyAnalyze(data, RollingStats(telemetry_history)),
         fdia     |-> FdiaAnalyze(data, telemetry_history, fdia_history),
         physics  |-> PhysicsAnalyze(data),
         behavior |-> behavior.out,
         memory   |-> MemoryAnalyze(data, telemetry_history, memory,
                                    p.attack_signatures)],
     fdia_history      |-> fdia_history,
     command_history   |-> behavior.command_history,
     timestamp_history |-> behavior.timestamp_history,
     switch_timestamps |-> behavior.switch_timestamps,
     telemetry_memory  |-> memory]

ExecuteModels(p, pre) ==
    ExecuteModelsWith(p, pre.data, pre.telemetry_history,
                      FdiaUpdateHistory(p.fdia_history, pre.data),
                      BehaviorAnalyze(pre.data, p),
                      MemoryUpdate(p.telemetry_memory, pre.data))

\* _prepare_output run after the count was advanced
PrepareOutputAfterCounting(model_outputs, fusion_result, data, analysis_count) ==
    [model_outputs |-> [m \in Models |-> model_outputs[m].score],
     final_risk    |-> fusion_result.final_risk,
     decision      |-> fusion_result.decision,
     confidence    |-> fusion_result.confidence,
     explanation   |-> fusion_result.explanation,
     details       |->
        [primary_threat       |-> fusion_result.primary_threat,
         primary_threat_score |-> fusion_result.primary_threat_score,
         model_contributions  |-> fusion_result.model_contributions,
         individual_reasons   |-> [m \in Models |-> model_outputs[m].reason],
         analysis_count       |-> analysis_count + 1,
         input_data           |->
            [voltage |-> data.voltage, frequency |-> data.frequency,
             power_flow |-> data.power_flow,
             breaker_status |-> data.breaker_status]]]

PrepareOutput(model_outputs, fusion_result, data, analysis_count) ==
    [model_outputs |-> [m \in Models |-> model_outputs[m].score],
     final_risk    |-> fusion_result.final_risk,
     decision      |-> fusion_result.decision,
     confidence    |-> fusion_result.confidence,
     explanation   |-> fusion_result.explanation,
     details       |->
        [primary_threat       |-> fusion_result.primary_threat,
         primary_threat_score |-> fusion_result.primary_threat_score,
         model_contributions  |-> fusion_result.model_contributions,
         individual_reasons   |-> [m \in Models |-> model_outputs[m].reason],
         analysis_count       |-> analysis_count,
         input_data           |->
            [voltage |-> data.voltage, frequency |-> data.frequency,
             power_flow |-> data.power_flow,
             breaker_status |-> data.breaker_status]]]

HandleError(error, error_type, input_data) ==
    [model_outputs |-> [m \in Models |-> 0],
     final_risk    |-> 0,
     decision      |-> "ERROR",
     confidence    |-> 0,
     explanation   |-> [kind |-> "analysis_error", reasons |-> <<error>>,
                        count |-> 0],
     details       |-> [error |-> error, error_type |-> error_type,
                        input_data |-> input_data]]

\* AIPipeline.analyze: the record returned and the pipeline afterwards
\* steps 2 to 4 of analyze, on what the models returned for a valid sample
FuseAndPrepare(p, pre, run) ==
    [out |-> PrepareOutput(run.outputs, Fuse(p.weights, run.outputs), pre.data,
                           p.analysis_count),
     pipeline |->
        [last_telemetry    |-> pre.last_telemetry,
         telemetry_history |-> pre.telemetry_history,
         fdia_history      |-> run.fdia_history,
         command_history   |-> run.command_history,
         timestamp_history |-> run.timestamp_history,
         switch_timestamps |-> run.switch_timestamps,
         telemetry_memory  |-> run.telemetry_memory,
         attack_signatures |-> p.attack_signatures,
         weights           |-> p.weights,
         analysis_count    |-> p.analysis_count + 1]]

\* steps 2 to 4 after preprocess returned: an exception raised by
\* _execute_models is caught by analyze after the preprocessor stored the
\* sample
AnalyzePreprocessed(p, input_data, pre) ==
    IF StatisticsOverflow(pre.telemetry_history)
    THEN [out |-> HandleError("Numerical result out of range", "OverflowError",
                              input_data),
          pipeline |-> [p EXCEPT !.last_telemetry = pre.last_telemetry,
                                 !.telemetry_history = pre.telemetry_history]]
    ELSE FuseAndPrepare(p, pre, ExecuteModels(p, pre))

\* analyze counting the rejected calls, too
AnalyzeCountingRejected(p, input_data, now) ==
    IF ValidateInput(input_data) # OK
    THEN [out |-> HandleError(ValidateInput(input_data), "PreprocessingError",
                              input_data),
          pipeline |-> [p EXCEPT !.analysis_count = @ + 1]]
    ELSE AnalyzePreprocessed(p, input_data, Preprocess(p, input_data, now))

Analyze(p, input_data, now) ==
    IF ValidateInput(input_data) # OK
    THEN [out |-> HandleError(ValidateInput(input_data), "PreprocessingError",
                              input_data),
          pipeline |-> p]
    ELSE AnalyzePreprocessed(p, input_data, Preprocess(p, input_data, now))

\* MemoryModel.add_attack_signature
AddAttackSignature(attack_signatures, name, voltage, frequency, power_flow) ==
    Append(attack_signatures,
           [name |-> name,
            vector |-> CreateFeatureVector([voltage |-> voltage,
                                            frequency |-> frequency,
                                            power_flow |-> power_flow])])

\* a reset that rebuilds the fusion engine and the memory model
ResetPipelineToConstruction(p) ==
    [p EXCEPT !.last_telemetry = << >>,
              !.telemetry_history = << >>,
              !.fdia_history = << >>,
              !.command_history = << >>,
              !.timestamp_history = << >>,
              !.telemetry_memory = << >>,
              !.attack_signatures = InitialAttackSignatures,
              !.weights = FUSION_WEIGHTS,
              !.analysis_count = 0]

\* AIPipeline.reset
ResetPipeline(p) ==
    [p EXCEPT !.last_telemetry = << >>,
              !.telemetry_history = << >>,
              !.fdia_history = << >>,
              !.command_history = << >>,
              !.timestamp_history = << >>,
              !.telemetry_memory = << >>,
              !.analysis_count = 0]

\* ------------------------------------------------------------------------
\* A client of one AIPipeline: the calls it makes and what they return
\* ------------------------------------------------------------------------
VARIABLES
    pipeline,     \* the AIPipeline object
    result,       \* the record the last analyze call returned
    call,         \* the last call: its name, its argument, whether it raised
    ops,          \* the number of calls made so far
    twin,         \* << >>, or <<p>> for a second AIPipeline p built at a reset
    twin_result,  \* the record the twin's last analyze call returned
    arrivals,     \* the samples analysed since construction or the last reset
    threads       \* where each thread of the server stands in its analyze call

vars == <<pipeline, result, call, ops, twin, twin_result, arrivals, threads>>

\* the longest sequence of calls of the client, and of the telemetry stream
MaxOps == 4
MaxCalls == 104
\* the stream is reset only after a multiple of ResetEvery samples
ResetEvery == 13

\* Wednesday 10:00; datetime.now() advances by TickMs with every call
StartTime == 2 * MsPerDay + 10 * MsPerHour
TickMs == 2 * MsPerSecond
WallClock == StartTime + ops * TickMs

NoResult == [decision |-> "NONE"]
NoCall == [op |-> "none", raised |-> FALSE]

\* Scenario A and Scenario B of test_scenarios.py, a sample under both
\* voltage and frequency limits, a sample parallel to the first attack
\* signature, and two partial dictionaries
ScenarioA == Sample(1000, 500, 1000, "ON", StartTime)
ScenarioB == Dict(Num(1000), Num(500), Num(500), "OFF", NoTimestamp)
LowSample == Sample(829, 490, 500, "ON", StartTime + TickMs)
ParallelSample == Sample(1708, 2562, 1647, "ON", StartTime)
PowerOnly == Dict(NoField, NoField, Num(500), NoBreaker, NoTimestamp)
VoltageOnly == Dict(Num(1120), NoField, NoField, "ON", NoTimestamp)

ValidInputs ==
    {ScenarioA, ScenarioB, LowSample, ParallelSample, PowerOnly, VoltageOnly}

InvalidInputs ==
    {NotADict,
     Dict(NoField, NoField, NoField, "ON", NoTimestamp),
     Dict(Num(1000), NonNumeric, Num(1000), "ON", NoTimestamp),
     Dict(Num(1000), Num(500), Num(500), "TRIPPED", NoTimestamp)}

\* arguments of update_weights, in units of 0.01: a full and a partial
\* dictionary that sum to 1.0, and a full and a partial one that do not
WeightArgs ==
    {[m \in Models |-> 20],
     [m \in {"anomaly"} |-> 100],
     [m \in Models |-> 30],
     [m \in {"anomaly", "fdia"} |-> 40]}

\* the request threads of the gateway's server, and a thread outside analyze
Threads == {1, 2}
IdleThread == [pc |-> "idle"]

Init ==
    /\ pipeline = NewPipeline
    /\ result = NoResult
    /\ call = NoCall
    /\ ops = 0
    /\ twin = << >>
    /\ twin_result = NoResult
    /\ arrivals = << >>
    /\ threads = [t \in Threads |-> IdleThread]

\* pipeline.analyze(input_data) at wall-clock time now
AnalyzeOn(input_data, now) ==
    /\ \E r \in {Analyze(pipeline, input_data, now)} :
           /\ pipeline' = r.pipeline
           /\ result' = r.out
           /\ arrivals' = IF r.out.decision = "ERROR" THEN arrivals
                          ELSE Append(arrivals,
                                      Preprocess(pipeline, input_data, now).data)
    /\ call' = [op |-> "analyze", input |-> input_data, raised |-> FALSE]
    /\ IF twin = << >>
       THEN UNCHANGED <<twin, twin_result>>
       ELSE \E t \in {Analyze(twin[1], input_data, now)} :
                twin' = <<t.pipeline>> /\ twin_result' = t.out
    /\ UNCHANGED threads

AnalyzeCall ==
    /\ ops < MaxOps
    /\ \E input_data \in ValidInputs \cup InvalidInputs :
           AnalyzeOn(input_data, WallClock)
    /\ ops' = ops + 1

\* pipeline.reset()
ResetCall ==
    /\ ops < MaxOps
    /\ pipeline' = ResetPipeline(pipeline)
    /\ call' = [op |-> "reset", raised |-> FALSE]
    /\ arrivals' = << >>
    /\ ops' = ops + 1
    /\ UNCHANGED <<result, twin, twin_result, threads>>

\* pipeline.fusion_engine.update_weights(new_weights)
UpdateWeightsCall ==
    /\ ops < MaxOps
    /\ \E new_weights \in WeightArgs :
           LET u == UpdateWeights(pipeline.weights, new_weights)
           IN  /\ pipeline' = [pipeline EXCEPT !.weights = u.weights]
               /\ call' = [op |-> "update_weights", input |-> new_weights,
                           raised |-> u.raised]
    /\ ops' = ops + 1
    /\ UNCHANGED <<result, twin, twin_result, arrivals, threads>>

Next == AnalyzeCall \/ ResetCall \/ UpdateWeightsCall

Spec == Init /\ [][Next]_vars

\* ------------------------------------------------------------------------
\* A telemetry stream: one sample every StreamGapMs, the breaker toggling
\* with every sample, fed to the pipeline and, after a reset, to a freshly
\* constructed pipeline as well.  Here ops counts the samples consumed.
\* ------------------------------------------------------------------------
StreamGapMs == 7 * MsPerSecond

StreamSample(n) ==
    IF n % 2 = 0
    THEN Sample(950 + n, 500, 1000, "ON", StartTime + n * StreamGapMs)
    ELSE Sample(950 + n, 500, 0, "OFF", StartTime + n * StreamGapMs)

StreamAnalyze ==
    /\ ops < MaxCalls
    /\ AnalyzeOn(StreamSample(ops), WallClock)
    /\ ops' = ops + 1

\* a malformed sample arrives: analyze rejects it
StreamReject ==
    /\ result.decision # "ERROR"
    /\ AnalyzeOn(NotADict, WallClock)
    /\ UNCHANGED ops

\* pipeline.reset(), and AIPipeline() for the comparison
StreamReset ==
    /\ twin = << >>
    /\ ops % ResetEvery = 0
    /\ pipeline' = ResetPipeline(pipeline)
    /\ twin' = <<NewPipeline>>
    /\ call' = [op |-> "reset", raised |-> FALSE]
    /\ arrivals' = << >>
    /\ UNCHANGED <<result, twin_result, ops, threads>>

\* at the end of the stream one of its samples is sent again: the oldest the
\* behavior model still remembers, or the one before it
StreamReplay ==
    /\ ops = MaxCalls
    /\ Len(arrivals) > pattern_memory_size
    /\ \A i \in 2..Len(arrivals) :
           arrivals[i].timestamp_unix > arrivals[i - 1].timestamp_unix
    /\ \E back \in {pattern_memory_size, pattern_memory_size + 1} :
           AnalyzeOn(StreamSample(ops - back), WallClock)
    /\ UNCHANGED ops

NextStream == StreamAnalyze \/ StreamReject \/ StreamReset \/ StreamReplay

SpecStream == Init /\ [][NextStream]_vars

\* ------------------------------------------------------------------------
\* The scenarios of test_scenarios.py on one pipeline: baseline samples
\* followed by the FDIA sample, or samples whose breaker toggles, one sample
\* every ScenarioGapMs; a reset starts the next scenario, and the fusion
\* weights may be replaced before a scenario starts.  Here ops counts the
\* samples sent.
\* ------------------------------------------------------------------------
ScenarioGapMs == 10 * MsPerSecond
ScenarioClock == StartTime + ops * ScenarioGapMs

\* the baseline samples test_fdia_attack sends before the attack
BaselineSamples == 5
\* the longest run of baseline samples, and of toggling samples
MaxBaseline == 6
MaxToggling == 14

NormalSample(breaker_status, t) == Sample(1000, 500, 1000, breaker_status, t)
AttackSample(t) == Sample(1080, 503, 950, "ON", t)

\* weights that sum to 1.0 and lean on the memory model, or on the anomaly
\* model
MemoryHeavyWeights ==
    [m \in Models |-> IF m = "memory" THEN 60 ELSE 10]
AnomalyHeavyWeights ==
    [m \in Models |-> IF m = "anomaly" THEN 96 ELSE 1]
ScenarioWeightArgs == {MemoryHeavyWeights, AnomalyHeavyWeights}

IsNormal(data) ==
    data.voltage = 1000 /\ data.frequency = 500 /\ data.power_flow = 1000

\* every sample since construction or the last reset was a baseline sample
OnlyBaseline ==
    \A i \in 1..Len(arrivals) :
        IsNormal(arrivals[i]) /\ arrivals[i].breaker_status = "ON"

\* the samples since construction or the last reset toggle the breaker,
\* starting from ON
OnlyToggling ==
    \A i \in 1..Len(arrivals) :
        /\ IsNormal(arrivals[i])
        /\ arrivals[i].breaker_status = (IF i % 2 = 1 THEN "ON" ELSE "OFF")

Opposed(breaker_status) == IF breaker_status = "ON" THEN "OFF" ELSE "ON"

ScenarioBaseline ==
    /\ OnlyBaseline
    /\ Len(arrivals) < MaxBaseline
    /\ AnalyzeOn(NormalSample("ON", ScenarioClock), ScenarioClock)
    /\ ops' = ops + 1

ScenarioAttack ==
    /\ OnlyBaseline
    /\ Len(arrivals) >= BaselineSamples
    /\ AnalyzeOn(AttackSample(ScenarioClock), ScenarioClock)
    /\ ops' = ops + 1

ScenarioToggle ==
    /\ OnlyToggling
    /\ Len(arrivals) >= 1
    /\ Len(arrivals) < MaxToggling
    /\ AnalyzeOn(NormalSample(Opposed(arrivals[Len(arrivals)].breaker_status),
                              ScenarioClock), ScenarioClock)
    /\ ops' = ops + 1

\* pipeline.reset() between two scenarios, once
ScenarioReset ==
    /\ twin = << >>
    /\ arrivals # << >>
    /\ pipeline' = ResetPipeline(pipeline)
    /\ twin' = <<NewPipeline>>
    /\ call' = [op |-> "reset", raised |-> FALSE]
    /\ arrivals' = << >>
    /\ UNCHANGED <<result, twin_result, ops, threads>>

\* pipeline.fusion_engine.update_weights(new_weights) before a scenario
ScenarioWeights ==
    /\ arrivals = << >>
    /\ pipeline.weights = FUSION_WEIGHTS
    /\ \E new_weights \in ScenarioWeightArgs :
       \E u \in {UpdateWeights(pipeline.weights, new_weights)} :
           /\ pipeline' = [pipeline EXCEPT !.weights = u.weights]
           /\ call' = [op |-> "update_weights", input |-> new_weights,
                       raised |-> u.raised]
    /\ UNCHANGED <<result, ops, twin, twin_result, arrivals, threads>>

NextScenario ==
    \/ ScenarioBaseline
    \/ ScenarioAttack
    \/ ScenarioToggle
    \/ ScenarioReset
    \/ ScenarioWeights

SpecScenario == Init /\ [][NextScenario]_vars

\* ------------------------------------------------------------------------
\* A client that also sends a numeric voltage too large to be squared
\* ------------------------------------------------------------------------
\* a valid sample whose voltage is ten times the scaled overflow limit; the
\* client never sends it first after construction or reset
HugeSample == Sample(10 * SquareOverflowsAt, 500, 1000, "ON", StartTime + 5 * TickMs)

ExtremeInputs == {ScenarioA, ScenarioB, LowSample, HugeSample}

ExtremeAnalyze ==
    /\ ops < MaxOps
    /\ \E input_data \in ExtremeInputs :
           /\ input_data = HugeSample => pipeline.telemetry_history # << >>
           /\ AnalyzeOn(input_data, WallClock)
    /\ ops' = ops + 1

NextExtreme == ExtremeAnalyze \/ ResetCall

SpecExtreme == Init /\ [][NextExtreme]_vars

\* ------------------------------------------------------------------------
\* A client of the FusionEngine alone: fuse on arbitrary model outputs
\* ------------------------------------------------------------------------
\* the outputs a model may hand to fuse: no threat, a score of 0.3333 and a
\* score of 1.0, with different confidences
OutputArgs ==
    {Output(0, 9800, Reason("none", 0)),
     Output(3333, 8500, Reason("minor", 0)),
     Output(SC, 5000, Reason("threat", 0))}

\* pipeline.fusion_engine.fuse(model_outputs)
FuseCall ==
    /\ \E model_outputs \in [Models -> OutputArgs] :
           /\ result' = Fuse(pipeline.weights, model_outputs)
           /\ call' = [op |-> "fuse", input |-> model_outputs, raised |-> FALSE]
    /\ UNCHANGED <<pipeline, ops, twin, twin_result, arrivals, threads>>

\* pipeline.fusion_engine.update_weights(new_weights) on the configured
\* weights
FuseUpdateWeights ==
    /\ pipeline.weights = FUSION_WEIGHTS
    /\ \E new_weights \in WeightArgs :
       \E u \in {UpdateWeights(pipeline.weights, new_weights)} :
           /\ pipeline' = [pipeline EXCEPT !.weights = u.weights]
           /\ call' = [op |-> "update_weights", input |-> new_weights,
                       raised |-> u.raised]
    /\ UNCHANGED <<result, ops, twin, twin_result, arrivals, threads>>

NextFuse == FuseCall \/ FuseUpdateWeights

SpecFuse == Init /\ [][NextFuse]_vars

\* ------------------------------------------------------------------------
\* Two request threads of the gateway calling analyze on the singleton
\* pipeline.  No lock guards the pipeline, so the threads interleave between
\* the statements of preprocess and _execute_models.
\* ------------------------------------------------------------------------
ThreadInputs(t) ==
    IF t = 1 THEN {ScenarioA, ParallelSample}
    ELSE {LowSample, NormalSample("OFF", StartTime + ScenarioGapMs)}

\* the thread enters analyze; validation and the local steps of preprocess
ThreadCall(t) ==
    /\ threads[t].pc = "idle"
    /\ \E input_data \in ThreadInputs(t) :
           threads' = [threads EXCEPT ![t] =
                          [pc |-> "compute_deltas", input |-> input_data]]
    /\ UNCHANGED <<pipeline, result, call, ops, twin, twin_result, arrivals>>

\* _compute_deltas reads self.last_telemetry
ThreadComputeDeltas(t) ==
    /\ threads[t].pc = "compute_deltas"
    /\ threads' = [threads EXCEPT ![t] =
                      [pc |-> "store_last", input |-> threads[t].input,
                       data |-> Preprocess(pipeline, threads[t].input,
                                           WallClock).data]]
    /\ UNCHANGED <<pipeline, result, call, ops, twin, twin_result, arrivals>>

\* self.last_telemetry = data.copy()
ThreadStoreLast(t) ==
    /\ threads[t].pc = "store_last"
    /\ pipeline' = [pipeline EXCEPT !.last_telemetry =
                        <<HandleMissingFields(threads[t].input, WallClock)>>]
    /\ threads' = [threads EXCEPT ![t].pc = "update_history"]
    /\ UNCHANGED <<result, call, ops, twin, twin_result, arrivals>>

\* _update_history
ThreadUpdateHistory(t) ==
    /\ threads[t].pc = "update_history"
    /\ pipeline' = [pipeline EXCEPT !.telemetry_history =
                        UpdateTelemetryHistory(@, threads[t].data)]
    /\ threads' = [threads EXCEPT ![t].pc = "execute_models"]
    /\ UNCHANGED <<result, call, ops, twin, twin_result, arrivals>>

\* _execute_models on the history as it is now, fuse, _prepare_output and
\* the return
ThreadExecuteModels(t) ==
    /\ threads[t].pc = "execute_models"
    /\ \E r \in {AnalyzePreprocessed(pipeline, threads[t].input,
                      [data |-> threads[t].data,
                       last_telemetry |-> pipeline.last_telemetry,
                       telemetry_history |-> pipeline.telemetry_history])} :
           /\ pipeline' = r.pipeline
           /\ threads' = [threads EXCEPT ![t] =
                              [pc |-> "returned", input |-> threads[t].input,
                               data |-> threads[t].data, out |-> r.out,
                               telemetry_history |-> pipeline.telemetry_history]]
    /\ UNCHANGED <<result, call, ops, twin, twin_result, arrivals>>

NextConcurrent ==
    \E t \in Threads :
        \/ ThreadCall(t)
        \/ ThreadComputeDeltas(t)
        \/ ThreadStoreLast(t)
        \/ ThreadUpdateHistory(t)
        \/ ThreadExecuteModels(t)

SpecConcurrent == Init /\ [][NextConcurrent]_vars

\* ------------------------------------------------------------------------
\* An operator whose commands reach the pipeline in any order of their
\* timestamps; the pipeline is never reset
\* ------------------------------------------------------------------------
SwitchSamples ==
    {NormalSample(b, StartTime + m * 30 * 60 * MsPerSecond) :
        b \in {"ON", "OFF"}, m \in {0, 1, 3}}

SwitchAnalyze ==
    /\ ops < MaxOps
    /\ \E input_data \in SwitchSamples : AnalyzeOn(input_data, WallClock)
    /\ ops' = ops + 1

SpecSwitching == Init /\ [][SwitchAnalyze]_vars

\* ------------------------------------------------------------------------
\* The fusion engine explaining one set of model outputs, each model giving
\* a reason of its own
\* ------------------------------------------------------------------------
\* scores on and around the limits the explanations use: 0, 0.2, 0.3, 0.5, 1
ExplainScores == <<0, 2000, 3000, 5000, SC>>

ExplainOutput(m, level) == Output(ExplainScores[level], 8500, Reason(m, level))

\* pipeline.fusion_engine.fuse(model_outputs), once
ExplainCall ==
    /\ call.op # "fuse"
    /\ \E levels \in [Models -> DOMAIN ExplainScores] :
       \E model_outputs \in {[m \in Models |-> ExplainOutput(m, levels[m])]} :
           /\ result' = Fuse(pipeline.weights, model_outputs)
           /\ call' = [op |-> "fuse", input |-> model_outputs, raised |-> FALSE]
    /\ UNCHANGED <<pipeline, ops, twin, twin_result, arrivals, threads>>

SpecExplain == Init /\ [][ExplainCall]_vars

\* ------------------------------------------------------------------------
\* A client that teaches the memory model a signature at run time, changes
\* the weights, analyses and resets
\* ------------------------------------------------------------------------
\* the signatures added: the measurements of LowSample, and of Scenario A
SignatureArgs ==
    {[name |-> "Undervoltage sag", voltage |-> 829, frequency |-> 490,
      power_flow |-> 500],
     [name |-> "Nominal replay", voltage |-> 1000, frequency |-> 500,
      power_flow |-> 1000]}

\* pipeline.memory_model.add_attack_signature(name, voltage, frequency,
\* power_flow), once
AddAttackSignatureCall ==
    /\ ops < MaxOps
    /\ pipeline.attack_signatures = InitialAttackSignatures
    /\ \E sig \in SignatureArgs :
           pipeline' = [pipeline EXCEPT !.attack_signatures =
                           AddAttackSignature(@, sig.name, sig.voltage,
                                              sig.frequency, sig.power_flow)]
    /\ call' = [op |-> "add_attack_signature", raised |-> FALSE]
    /\ ops' = ops + 1
    /\ UNCHANGED <<result, twin, twin_result, arrivals, threads>>

SignatureAnalyze ==
    /\ ops < MaxOps
    /\ \E input_data \in {ScenarioA, LowSample, ParallelSample} :
           AnalyzeOn(input_data, WallClock)
    /\ ops' = ops + 1

NextSignatures ==
    SignatureAnalyze \/ AddAttackSignatureCall \/ UpdateWeightsCall \/ ResetCall

SpecSignatures == Init /\ [][NextSignatures]_vars

\* ------------------------------------------------------------------------
\* Properties
\* ------------------------------------------------------------------------
\* the last call was analyze and returned an analysis, not an error record
Analysed == call.op = "analyze" /\ result.decision \notin {"NONE", "ERROR"}

\* the four ways an input fails validation
FailsValidation(input_data) ==
    \/ ~input_data.isdict
    \/ /\ input_data.voltage.k = "absent"
       /\ input_data.frequency.k = "absent"
       /\ input_data.power_flow.k = "absent"
    \/ \E f \in {"voltage", "frequency", "power_flow"} : input_data[f].k = "str"
    \/ input_data.breaker_status \notin {NoBreaker, "ON", "OFF"}

\* C1: for every input that fails validation (not a dictionary, no telemetry
\* field present, a present field non-numeric, or a breaker_status other
\* than ON/OFF) analyze raises nothing and returns a record with decision
\* ERROR, all five model scores 0, final_risk 0 and confidence 0, the error
\* message in explanation and details; such a record is never SAFE, WARNING
\* or CRITICAL.
C1_InvalidInputGivesErrorRecord ==
    (call.op = "analyze" /\ FailsValidation(call.input)) =>
        /\ ~call.raised
        /\ result.decision = "ERROR"
        /\ result.decision \notin {"SAFE", "WARNING", "CRITICAL"}
        /\ \A m \in Models : result.model_outputs[m] = 0
        /\ result.final_risk = 0
        /\ result.confidence = 0
        /\ Len(result.explanation.reasons) = 1
        /\ result.explanation.reasons[1] \notin {OK, ""}
        /\ result.details.error = result.explanation.reasons[1]

\* an input with a bad breaker_status was rejected by a pipeline that had
\* analysed samples before
C1_Witness ==
    /\ call.op = "analyze"
    /\ call.input.isdict
    /\ call.input.breaker_status = "TRIPPED"
    /\ result.decision = "ERROR"
    /\ pipeline.analysis_count > 0

\* C2: after any sequence of analyze calls with valid inputs, every value
\* of the returned model_outputs map, the final_risk and the confidence lie
\* in the closed interval [0, 1].
C2_ScoresInUnitInterval ==
    Analysed =>
        /\ \A m \in Models : result.model_outputs[m] \in 0..SC
        /\ result.final_risk \in 0..1000
        /\ result.confidence \in 0..1000

\* C3, as claimed: in every record that is not an error record the decision
\* agrees with the reported final_risk under the thresholds 0.30 and 0.60:
\* SAFE iff final_risk < 0.30, WARNING iff 0.30 <= final_risk < 0.60,
\* CRITICAL iff final_risk >= 0.60.
C3_DecisionAgreesWithReportedRisk ==
    Analysed =>
        /\ result.decision = "SAFE" <=> result.final_risk < 10 * safe_threshold
        /\ result.decision = "WARNING" <=>
               /\ result.final_risk >= 10 * safe_threshold
               /\ result.final_risk < 10 * warning_threshold
        /\ result.decision = "CRITICAL" <=>
               result.final_risk >= 10 * warning_threshold

Rank(decision) ==
    CASE decision = "SAFE" -> 0 [] decision = "WARNING" -> 1
      [] decision = "CRITICAL" -> 2 [] OTHER -> -1

\* the reported final_risk is within the closed band of the decision
DecisionWithinRounding ==
    Analysed =>
        /\ result.decision \in {"SAFE", "WARNING", "CRITICAL"}
        /\ result.decision = "SAFE" => result.final_risk <= 10 * safe_threshold
        /\ result.decision = "WARNING" =>
               /\ result.final_risk >= 10 * safe_threshold
               /\ result.final_risk <= 10 * warning_threshold
        /\ result.decision = "CRITICAL" =>
               result.final_risk >= 10 * warning_threshold

\* of two records returned one after the other, the one with the larger
\* reported final_risk does not carry the lower decision
DecisionMonotone ==
    (Analysed /\ Analysed') =>
        /\ result'.final_risk > result.final_risk =>
               Rank(result'.decision) >= Rank(result.decision)
        /\ result'.final_risk < result.final_risk =>
               Rank(result'.decision) <= Rank(result.decision)

\* C3, amended: the decision classifies the risk before it is rounded and
\* the record reports the risk rounded to three decimals, so SAFE implies
\* final_risk <= 0.30, WARNING implies 0.30 <= final_risk <= 0.60, and
\* CRITICAL implies final_risk >= 0.60; a larger reported final_risk never
\* carries a lower decision.
C3_DecisionAgreesUpToRounding ==
    []DecisionWithinRounding /\ [][DecisionMonotone]_vars

\* a record that is SAFE and reports final_risk 0.3
C3_Witness == Analysed /\ result.decision = "SAFE" /\ result.final_risk = 300

\* C4: for any sequence S of valid inputs with explicit timestamps and any
\* prior history of analyze calls on a pipeline, reset() followed by S
\* produces exactly the output records a freshly constructed pipeline
\* produces for S.
C4_ResetEqualsFresh ==
    (twin # << >> /\ twin_result # NoResult) => result = twin_result

\* the arrivals as each buffer stores them
ArrivedTelemetry == [i \in 1..Len(arrivals) |-> HistoryEntry(arrivals[i])]
ArrivedTriples == [i \in 1..Len(arrivals) |-> Triple(arrivals[i])]
ArrivedCommands == [i \in 1..Len(arrivals) |-> CommandEntry(arrivals[i])]
ArrivedTimestamps == [i \in 1..Len(arrivals) |-> arrivals[i].timestamp_unix]

C6_SwitchTimestampsBounded == Len(pipeline.switch_timestamps) <= 50

\* C7: after any sequence of update_weights calls, accepted or rejected,
\* the weights the engine uses for the five models sum to 1.0 within 0.01.
C7_WeightsSumToOne ==
    Abs(SumSeq([i \in 1..5 |-> pipeline.weights[ModelNames[i]]]) - 100) <= 1

\* the values of the argument do not sum to 1.0 within 0.01
BadSum(new_weights) ==
    LET names == CHOOSE q \in [1..Cardinality(DOMAIN new_weights)
                                  -> DOMAIN new_weights] :
                     \A k \in DOMAIN new_weights : \E i \in DOMAIN q : q[i] = k
        total == SumSeq([i \in DOMAIN names |-> new_weights[names[i]]])
    IN  total < 99 \/ total > 101

\* C8: update_weights called with a weight set whose values do not sum to
\* 1.0 within 0.01 fails with an error and leaves the engine's weights
\* exactly as they were before the call.
C8_RejectedUpdateKeepsWeights ==
    [][(call'.op = "update_weights" /\ ops' = ops + 1 /\ BadSum(call'.input))
          => (call'.raised /\ pipeline'.weights = pipeline.weights)]_vars

\* a weight set was rejected by an engine whose weights had been replaced
C8_Witness ==
    /\ call.op = "update_weights"
    /\ BadSum(call.input)
    /\ call.raised
    /\ pipeline.weights = [m \in Models |-> 20]

\* C9: analyze of Scenario B {voltage 1.0, frequency 50.0, power_flow 50.0,
\* breaker_status OFF} returns decision CRITICAL, on a freshly constructed
\* pipeline as well as after earlier valid samples.
C9_ScenarioBIsCritical ==
    (call.op = "analyze" /\ call.input = ScenarioB) =>
        result.decision = "CRITICAL"

\* breaker_status OFF, given or defaulted, and |power_flow| above 0.01 MW
BreakerOffWithPower(input_data) ==
    /\ ~FailsValidation(input_data)
    /\ input_data.breaker_status \in {"OFF", NoBreaker}
    /\ input_data.power_flow.k = "num"
    /\ 10 * Abs(input_data.power_flow.v) > 1

ScenarioAOnFreshOrReset ==
    /\ Analysed
    /\ Len(arrivals) = 1
    /\ IsNormal(arrivals[1])
    /\ arrivals[1].breaker_status = "ON"
    /\ ~arrivals[1].is_weekend
    /\ ~arrivals[1].is_night

\* C11, as claimed: on a freshly constructed or reset pipeline, Scenario A
\* with a weekday daytime timestamp returns decision SAFE with
\* final_risk < 0.30.
C11_ScenarioAIsSafe ==
    ScenarioAOnFreshOrReset =>
        result.decision = "SAFE" /\ result.final_risk < 300

\* C11, amended: on a freshly constructed or reset pipeline whose fusion
\* weights are the configured defaults, Scenario A with a weekday daytime
\* timestamp returns decision SAFE with final_risk < 0.30.
C11_ScenarioAIsSafeUnderDefaultWeights ==
    (ScenarioAOnFreshOrReset /\ pipeline.weights = FUSION_WEIGHTS) =>
        result.decision = "SAFE" /\ result.final_risk < 300

\* Scenario A was analysed after a reset that left the toggles of the
\* scenario before it behind, under the default weights
C11_Witness ==
    /\ ScenarioAOnFreshOrReset
    /\ pipeline.weights = FUSION_WEIGHTS
    /\ twin # << >>
    /\ result.model_outputs.behavior >= 6000
    /\ result.decision = "SAFE"

\* the pipeline was constructed and neither reset nor reconfigured since
NeverResetNorReconfigured == twin = << >> /\ pipeline.weights = FUSION_WEIGHTS

\* the last call analysed the FDIA sample of Scenario C after exactly
\* BaselineSamples baseline samples
AttackAfterBaseline ==
    /\ Analysed
    /\ Len(arrivals) = BaselineSamples + 1
    /\ \A i \in 1..BaselineSamples :
           /\ IsNormal(arrivals[i]) /\ arrivals[i].breaker_status = "ON"
           /\ i > 1 => arrivals[i].timestamp_unix > arrivals[i - 1].timestamp_unix
    /\ arrivals[BaselineSamples + 1].voltage = 1080
    /\ arrivals[BaselineSamples + 1].frequency = 503
    /\ arrivals[BaselineSamples + 1].power_flow = 950
    /\ arrivals[BaselineSamples + 1].breaker_status = "ON"

\* C12: on a fresh pipeline, after 5 baseline samples (1.0, 50.0, 100.0, ON)
\* with distinct increasing timestamps, analyze of (1.08, 50.3, 95.0, ON)
\* returns an FDIA model score > 0.3 and a decision WARNING or CRITICAL.
C12_ScenarioCIsDetected ==
    (NeverResetNorReconfigured /\ AttackAfterBaseline) =>
        /\ result.model_outputs.fdia > 3000
        /\ result.decision \in {"WARNING", "CRITICAL"}

C12_Witness ==
    /\ NeverResetNorReconfigured
    /\ AttackAfterBaseline
    /\ result.model_outputs.fdia > 9000
    /\ result.final_risk = 618
    /\ result.decision = "CRITICAL"

\* this step is an analyze call of a valid sample that carries the parseable
\* timestamp of the valid sample analysed by the call just before it
ResendsTimestamp ==
    /\ Analysed
    /\ call.input.timestamp.k = "iso"
    /\ call'.op = "analyze"
    /\ result'.decision \notin {"NONE", "ERROR"}
    /\ call'.input.timestamp = call.input.timestamp

TwelfthToggleOrLater ==
    /\ Analysed
    /\ OnlyToggling
    /\ Len(arrivals) >= 13
    /\ \A i \in 2..Len(arrivals) :
           arrivals[i].timestamp_unix > arrivals[i - 1].timestamp_unix
    /\ arrivals[13].timestamp_unix - arrivals[1].timestamp_unix <= 2 * 60 * MsPerSecond
    /\ arrivals[Len(arrivals)].timestamp_unix - arrivals[1].timestamp_unix < MsPerHour

\* C14, as claimed: Scenario E: on a fresh or reset pipeline fed samples with
\* constant voltage 1.0, frequency 50.0 and power_flow 100.0 whose
\* breaker_status toggles 12 times with all timestamps distinct and within 2
\* minutes, the call carrying the 12th toggle (and any later call within the
\* same hour) returns a behaviour score >= min(1, 12/20) = 0.6 and a decision
\* in {WARNING, CRITICAL}.
C14_ScenarioEIsDetected ==
    TwelfthToggleOrLater =>
        /\ result.model_outputs.behavior >= 6000
        /\ result.decision \in {"WARNING", "CRITICAL"}

\* C14, amended: the behaviour score is >= 0.6 on every fresh or reset
\* pipeline; the decision is WARNING or CRITICAL when the fusion weights are
\* the configured defaults.
C14_ScenarioEIsDetectedUnderDefaultWeights ==
    TwelfthToggleOrLater =>
        /\ result.model_outputs.behavior >= 6000
        /\ pipeline.weights = FUSION_WEIGHTS =>
               result.decision \in {"WARNING", "CRITICAL"}

C14_Witness ==
    /\ TwelfthToggleOrLater
    /\ Len(arrivals) = 13
    /\ pipeline.weights = FUSION_WEIGHTS
    /\ Len(pipeline.switch_timestamps) = 12
    /\ result.model_outputs.behavior = 6000
    /\ result.decision = "WARNING"

\* the sample the last call analysed, defaults filled in, has its voltage
\* outside [0.95, 1.05] or its frequency outside [49.5, 50.5]
OutOfBounds ==
    /\ Analysed
    /\ \/ arrivals[Len(arrivals)].voltage < 950
       \/ arrivals[Len(arrivals)].voltage > 1050
       \/ arrivals[Len(arrivals)].frequency < 495
       \/ arrivals[Len(arrivals)].frequency > 505

Stored(data) ==
    [voltage |-> data.voltage, frequency |-> data.frequency,
     power_flow |-> data.power_flow, breaker_status |-> data.breaker_status,
     timestamp |-> data.timestamp]

\* the deltas of the i-th sample analysed since construction or reset are
\* taken against the sample analysed just before it
DeltasAgainstPrevious(i) ==
    IF i = 1
    THEN /\ arrivals[1].delta_voltage = 0
         /\ arrivals[1].delta_frequency = 0
         /\ arrivals[1].delta_power_flow = 0
         /\ ~arrivals[1].breaker_changed
    ELSE /\ arrivals[i].delta_voltage = arrivals[i].voltage - arrivals[i - 1].voltage
         /\ arrivals[i].delta_frequency =
                arrivals[i].frequency - arrivals[i - 1].frequency
         /\ arrivals[i].delta_power_flow =
                arrivals[i].power_flow - arrivals[i - 1].power_flow
         /\ arrivals[i].breaker_changed =
                (arrivals[i].breaker_status # arrivals[i - 1].breaker_status)

\* C16: for every successful analyze call, the voltage, frequency and power
\* deltas and the breaker-changed flag are computed against the immediately
\* preceding successfully analyzed sample (after defaults are filled in); on
\* the first call after construction or reset all deltas are zero and no
\* breaker change is reported; a call that ended in ERROR never becomes the
\* reference sample.
C16_DeltasAgainstLastAnalysed ==
    /\ \A i \in 1..Len(arrivals) : DeltasAgainstPrevious(i)
    /\ pipeline.last_telemetry =
           IF arrivals = << >> THEN << >>
           ELSE <<Stored(arrivals[Len(arrivals)])>>

\* the last call was fuse
Fused == call.op = "fuse"

\* the sum, over the five models, of the current weight (0.01) times the
\* score or the confidence (1/SC) of the outputs handed to fuse, clamped
\* to [0, 1]
ClampedSum(field) ==
    Max(0, Min(100 * SC,
        pipeline.weights.anomaly * call.input.anomaly[field]
        + pipeline.weights.fdia * call.input.fdia[field]
        + pipeline.weights.physics * call.input.physics[field]
        + pipeline.weights.behavior * call.input.behavior[field]
        + pipeline.weights.memory * call.input.memory[field]))

\* a value reported in 0.001 is the exact value x (in 0.01/SC) rounded to
\* three decimals
ReportedTo3Decimals(reported, x) ==
    Abs(reported * (SC \div 10) - x) <= SC \div 20

\* C17, as claimed: for every set of five model outputs, FusionEngine.fuse
\* returns final_risk equal to the sum over the five models of weight times
\* score, clamped to [0,1] (reported to 3 decimals), confidence equal to the
\* correspondingly clamped weighted sum of confidences, and
\* model_contributions equal to weight times score per model under the
\* engine's current weights.
C17_FuseIsWeightedSum ==
    Fused =>
        /\ ReportedTo3Decimals(result.final_risk, ClampedSum("score"))
        /\ ReportedTo3Decimals(result.confidence, ClampedSum("confidence"))
        /\ \A m \in Models :
               result.model_contributions[m] * (SC \div 10) =
                   pipeline.weights[m] * call.input[m].score

\* C17, amended: the contributions, too, are reported to three decimals.
C17_FuseIsWeightedSumTo3Decimals ==
    Fused =>
        /\ ReportedTo3Decimals(result.final_risk, ClampedSum("score"))
        /\ ReportedTo3Decimals(result.confidence, ClampedSum("confidence"))
        /\ \A m \in Models :
               ReportedTo3Decimals(result.model_contributions[m],
                                   pipeline.weights[m] * call.input[m].score)

C17_Witness ==
    /\ Fused
    /\ pipeline.weights # FUSION_WEIGHTS
    /\ pipeline.weights.anomaly * call.input.anomaly.score
         + pipeline.weights.fdia * call.input.fdia.score > 100 * SC
    /\ result.final_risk = 1000
    /\ call.input.memory.score = 3333
    /\ result.model_contributions.memory = 50
    /\ result.confidence < 1000

\* C18: in every fused result, primary_threat names a model whose score is
\* >= every other model's score, and when several models share the maximum
\* score the one earliest in the fixed order anomaly, fdia, physics,
\* behavior, memory is chosen (so when all scores are 0 the primary threat is
\* anomaly with score 0).
C18_PrimaryThreatIsFirstMaximum ==
    Fused =>
        \E i \in 1..5 :
            /\ result.primary_threat =
                   <<"anomaly", "fdia", "physics", "behavior", "memory">>[i]
            /\ \A m \in Models :
                   call.input[m].score <= call.input[result.primary_threat].score
            /\ \A j \in 1..(i - 1) :
                   call.input[<<"anomaly", "fdia", "physics", "behavior",
                                "memory">>[j]].score
                       < call.input[result.primary_threat].score
            /\ (\A m \in Models : call.input[m].score = 0) =>
                   result.primary_threat = "anomaly" /\ result.primary_threat_score = 0

C18_Witness ==
    /\ Fused
    /\ call.input.anomaly.score = 0
    /\ call.input.fdia.score = SC
    /\ call.input.memory.score = SC
    /\ result.primary_threat = "fdia"
    /\ result.primary_threat_score = 1000

\* the same call on the same pipeline state twelve hours later
HalfADayLater == WallClock + 12 * MsPerHour

\* C19: analyze is a deterministic function of its input and the pipeline's
\* existing state: two pipelines in identical states that are given the same
\* valid input (with or without a timestamp field) return identical records
\* and end in identical states.
C19_AnalyzeIsDeterministic ==
    \A input_data \in ValidInputs :
        Analyze(pipeline, input_data, WallClock) =
            Analyze(pipeline, input_data, HalfADayLater)

\* the place of a returned call's sample in telemetry_history
PlaceOf(t) ==
    CHOOSE i \in 1..Len(pipeline.telemetry_history) :
        pipeline.telemetry_history[i] = HistoryEntry(threads[t].data)

\* the call of thread t took its deltas against the entry before its own and
\* its statistics from the history up to its own entry
SawOrderedHistory(t, i) ==
    /\ threads[t].telemetry_history = SubSeq(pipeline.telemetry_history, 1, i)
    /\ threads[t].data.delta_voltage =
           IF i = 1 THEN 0
           ELSE threads[t].data.voltage - pipeline.telemetry_history[i - 1].voltage
    /\ threads[t].data.delta_frequency =
           IF i = 1 THEN 0
           ELSE threads[t].data.frequency
                    - pipeline.telemetry_history[i - 1].frequency
    /\ threads[t].data.delta_power_flow =
           IF i = 1 THEN 0
           ELSE threads[t].data.power_flow
                    - pipeline.telemetry_history[i - 1].power_flow

\* C20: when two analyze calls run concurrently on the same pipeline, their
\* state mutations are serialized: in every interleaving, once both calls
\* have returned, the last-sample pointer equals the newest entry of
\* telemetry_history, and each call's deltas and rolling statistics were
\* computed against exactly the samples that precede its own sample in
\* telemetry_history.
C20_ConcurrentCallsAreSerialized ==
    (\A t \in Threads : threads[t].pc = "returned") =>
        /\ HistoryEntry(pipeline.last_telemetry[1]) =
               pipeline.telemetry_history[Len(pipeline.telemetry_history)]
        /\ \A t \in Threads : SawOrderedHistory(t, PlaceOf(t))

\* this step is an analyze call whose input fails validation
RejectedCall ==
    /\ call'.op = "analyze"
    /\ FailsValidation(call'.input)
    /\ result'.decision = "ERROR"

\* C21: an analyze call that returns ERROR because validation failed changes
\* no pipeline state: telemetry history, last-sample pointer, FDIA history,
\* the three behaviour buffers, memory buffer, fusion weights and
\* analysis_count are all unchanged, so every later record is identical to
\* what it would have been had the invalid call never been made.
C21_RejectedCallChangesNothing ==
    [][RejectedCall =>
          /\ pipeline'.telemetry_history = pipeline.telemetry_history
          /\ pipeline'.last_telemetry = pipeline.last_telemetry
          /\ pipeline'.fdia_history = pipeline.fdia_history
          /\ pipeline'.command_history = pipeline.command_history
          /\ pipeline'.timestamp_history = pipeline.timestamp_history
          /\ pipeline'.switch_timestamps = pipeline.switch_timestamps
          /\ pipeline'.telemetry_memory = pipeline.telemetry_memory
          /\ pipeline'.weights = pipeline.weights
          /\ pipeline'.analysis_count = pipeline.analysis_count
          /\ \A input_data \in ValidInputs :
                 Analyze(pipeline', input_data, WallClock').out =
                     Analyze(pipeline, input_data, WallClock').out]_vars

C21_Witness ==
    /\ call.op = "analyze"
    /\ FailsValidation(call.input)
    /\ result.decision = "ERROR"
    /\ pipeline.analysis_count = 2
    /\ Len(pipeline.telemetry_history) = 2
    /\ pipeline.weights # FUSION_WEIGHTS

\* a fresh pipeline has analysed only normal samples (1.0, 50.0, 100.0, ON)
\* with weekday daytime timestamps at least 5 seconds apart
SustainedNormalOperation ==
    /\ NeverResetNorReconfigured
    /\ Analysed
    /\ OnlyBaseline
    /\ \A i \in 1..Len(arrivals) :
           /\ ~arrivals[i].is_weekend /\ ~arrivals[i].is_night
           /\ i > 1 => arrivals[i].timestamp_unix
                           >= arrivals[i - 1].timestamp_unix + 5 * MsPerSecond

\* C22: sustained normal operation stays SAFE: on a fresh pipeline fed N >= 1
\* identical normal samples (voltage 1.0, frequency 50.0, power_flow 100.0,
\* breaker ON) with distinct weekday daytime timestamps at least 5 seconds
\* apart, every one of the N calls returns decision = SAFE with FDIA score 0.
C22_SustainedNormalStaysSafe ==
    SustainedNormalOperation =>
        result.decision = "SAFE" /\ result.model_outputs.fdia = 0

\* the timestamp t lies within the hour ending at the timestamp of the
\* sample analysed last
InTrailingHour(t) ==
    /\ t > arrivals[Len(arrivals)].timestamp_unix - MsPerHour
    /\ t <= arrivals[Len(arrivals)].timestamp_unix

\* the breaker toggles observed so far within that hour
TogglesInTrailingHour ==
    {i \in 1..Len(arrivals) :
        arrivals[i].breaker_changed /\ InTrailingHour(arrivals[i].timestamp_unix)}

\* C23: on every analyze call on a pipeline that has not been reset, for any
\* order of sample timestamps, the count used by the excessive-switching
\* check equals the number of breaker toggles observed so far whose timestamp
\* lies within the hour ending at the current sample's timestamp; the check
\* contributes min(1, count/20) exactly when that count exceeds 10 and
\* nothing otherwise, and afterwards the toggle buffer contains only
\* timestamps from that trailing hour.
C23_SwitchCountIsTrailingHour ==
    Analysed =>
        /\ Len(pipeline.switch_timestamps) = Cardinality(TogglesInTrailingHour)
        /\ \A i \in 1..Len(pipeline.switch_timestamps) :
               InTrailingHour(pipeline.switch_timestamps[i])
        /\ Cardinality(TogglesInTrailingHour) > max_switches_per_hour =>
               result.model_outputs.behavior >=
                   Min(SC, (Cardinality(TogglesInTrailingHour) * SC)
                               \div (2 * max_switches_per_hour))

\* the sample analysed last carries, within the replay tolerance, the
\* timestamp of one of the 50 samples analysed just before it since
\* construction or the last reset
RepeatsRecentTimestamp ==
    \E i \in Max(1, Len(arrivals) - pattern_memory_size)..(Len(arrivals) - 1) :
        Abs(arrivals[Len(arrivals)].timestamp_unix - arrivals[i].timestamp_unix)
            < replay_time_tolerance

\* the replay check, the first of the behavior model, fired in the last call
ReplayFired ==
    result.details.individual_reasons.behavior.tag = "behavior_replay"

\* C24: the replay check compares the current sample's timestamp only against
\* timestamps of earlier successful calls, because the current timestamp is
\* appended after scoring: the first sample after construction or reset never
\* scores for replay, and a sample scores 0.9 for replay exactly when its
\* timestamp is within 0.1 s of the timestamp of one of the (at most 50) most
\* recently analyzed samples.
C24_ReplayAgainstLastFifty ==
    Analysed =>
        /\ ReplayFired <=> RepeatsRecentTimestamp
        /\ ReplayFired => result.model_outputs.behavior >= 9000
        /\ Len(arrivals) = 1 => ~ReplayFired

C24_Witness ==
    /\ Analysed
    /\ Len(arrivals) > pattern_memory_size + 1
    /\ arrivals[Len(arrivals)].timestamp_unix =
           arrivals[Len(arrivals) - pattern_memory_size].timestamp_unix
    /\ ReplayFired
    /\ result.model_outputs.behavior >= 9000

\* a sample whose timestamp was seen 51 calls ago is not taken for a replay
C24_WitnessForgotten ==
    /\ Analysed
    /\ Len(arrivals) > pattern_memory_size + 2
    /\ arrivals[Len(arrivals)].timestamp_unix =
           arrivals[Len(arrivals) - pattern_memory_size - 1].timestamp_unix
    /\ ~ReplayFired

\* the sample analysed last, as preprocessed
Current == arrivals[Len(arrivals)]

\* the entries among the last 20 of the telemetry history (the current sample
\* is its newest entry) that are more than 0.98 similar to the current sample
PatternMatches ==
    HighSimilarityCount(CreateFeatureVector(Current),
                        LastN(pipeline.telemetry_history, 20))

\* the entries among the last 20 that carry the current sample's measurements
IdenticalInWindow ==
    Cardinality({i \in DOMAIN LastN(pipeline.telemetry_history, 20) :
        /\ LastN(pipeline.telemetry_history, 20)[i].voltage = Current.voltage
        /\ LastN(pipeline.telemetry_history, 20)[i].frequency = Current.frequency
        /\ LastN(pipeline.telemetry_history, 20)[i].power_flow = Current.power_flow})

\* the memory score is at least min(1, count / 10) when count > 3
MemoryScoresRepetition(count) ==
    count > 3 => result.model_outputs.memory >= Min(SC, (count * SC) \div 10)

BothDeltasSignificant ==
    Abs(Current.delta_voltage) > 30 /\ Abs(Current.delta_power_flow) > 50

OppositeDeltas == Opposite(Current.delta_voltage, Current.delta_power_flow)

\* |dp / dv| is above 3 * 2.0 or below 2.0 / 3
RatioOff ==
    \/ 100 * Abs(Current.delta_power_flow) > 6 * Abs(Current.delta_voltage)
    \/ 300 * Abs(Current.delta_power_flow) < 2 * Abs(Current.delta_voltage)

\* the FDIA score of the last call is the one the model gives when its
\* multi-signal check returns this score next to what the other two checks
\* find (score 0: the check does not fire)
CoordinationScored(score) ==
    result.model_outputs.fdia =
        FdiaOutput(Fired(<<CheckCorrelationMismatch(pipeline.telemetry_history),
                           CheckTemporalConsistency(Current),
                           Check(score, "fdia_opposite")>>)).score

\* C26: FDIA multi-signal coordination: on any analyze call (including the
\* second call after construction or reset) where |delta voltage| > 0.03,
\* |delta power| > 5 and the two deltas have opposite signs, the multi-signal
\* check fires with score 0.7 and the FDIA model score is greater than 0;
\* otherwise, if the ratio |delta power / delta voltage| is more than 3 times
\* above or below 2.0, it fires with 0.6.
C26_CoordinationOnAnyCall ==
    Analysed /\ BothDeltasSignificant =>
        /\ OppositeDeltas =>
               CoordinationScored(7000) /\ result.model_outputs.fdia > 0
        /\ ~OppositeDeltas /\ RatioOff => CoordinationScored(6000)

\* C26 (amended): the multi-signal check runs from the third analysed sample
\* after construction or reset; there, with both deltas significant, opposite
\* signs score 0.7 and otherwise a ratio off by more than a factor 3 scores
\* 0.6; on the first two samples, and when a delta is not significant, the
\* check does not fire.
C26_CoordinationFromThirdCall ==
    Analysed =>
        /\ Len(arrivals) >= 3 /\ BothDeltasSignificant /\ OppositeDeltas =>
               CoordinationScored(7000) /\ result.model_outputs.fdia > 0
        /\ Len(arrivals) >= 3 /\ BothDeltasSignificant /\ ~OppositeDeltas /\ RatioOff =>
               CoordinationScored(6000)
        /\ Len(arrivals) < 3 \/ ~BothDeltasSignificant => CoordinationScored(0)

C26_Witness ==
    /\ Analysed
    /\ Len(arrivals) = 3
    /\ BothDeltasSignificant
    /\ OppositeDeltas
    /\ CoordinationScored(7000)
    /\ ~CoordinationScored(0)

\* the second sample with opposite significant deltas: the check is silent
C26_WitnessSecondCall ==
    /\ Analysed
    /\ Len(arrivals) = 2
    /\ BothDeltasSignificant
    /\ OppositeDeltas
    /\ CoordinationScored(0)
    /\ ~CoordinationScored(7000)

\* same direction, ratio off: 0.6
C26_WitnessMagnitude ==
    /\ Analysed
    /\ Len(arrivals) >= 3
    /\ BothDeltasSignificant
    /\ ~OppositeDeltas
    /\ CoordinationScored(6000)
    /\ ~CoordinationScored(0)

\* the (voltage, frequency, power_flow) triples of the preprocessor's history
HistoryTriples ==
    [i \in 1..Len(pipeline.telemetry_history) |->
        Triple(pipeline.telemetry_history[i])]

\* C27: after any sequence of analyze and reset calls on a pipeline, the
\* redundant histories agree: the memory model's telemetry_memory holds the
\* same (voltage, frequency, power_flow) triples in the same order as the
\* preprocessor's telemetry_history, the FDIA model's history equals the last
\* 50 of those triples, and the behaviour model's command_history and
\* timestamp_history have the same length as the FDIA history.
C27_RedundantHistoriesAgree ==
    /\ pipeline.telemetry_memory = HistoryTriples
    /\ pipeline.fdia_history = LastN(HistoryTriples, 50)
    /\ Len(pipeline.command_history) = Len(pipeline.fdia_history)
    /\ Len(pipeline.timestamp_history) = Len(pipeline.fdia_history)

\* C28: the orchestrator counts invocations: at any point, analysis_count (as
\* returned by get_pipeline_stats) equals the number of analyze invocations
\* made since construction or the last reset(), and the call counter in a
\* record's details identifies that invocation in this count.  Step by step:
\* every analyze invocation advances the count by one, reset sets it to 0,
\* and a record carries the count its invocation has reached.
C28_EveryInvocationIsCounted ==
    [][/\ call'.op = "analyze" =>
              pipeline'.analysis_count = pipeline.analysis_count + 1
       /\ call'.op = "analyze" /\ result'.decision # "ERROR" =>
              result'.details.analysis_count = pipeline'.analysis_count
       /\ call'.op = "reset" => pipeline'.analysis_count = 0]_vars

\* C28 (amended): analysis_count is the number of analyze invocations that
\* returned an analysis since construction or the last reset: an invocation
\* that returns an analysis advances it by one, one that returns ERROR leaves
\* it alone, reset sets it to 0; the counter in a record's details is the
\* count before its own invocation was added, the number of analyses
\* completed before it.
C28_CompletedAnalysesAreCounted ==
    [][/\ call'.op = "analyze" /\ result'.decision # "ERROR" =>
              /\ pipeline'.analysis_count = pipeline.analysis_count + 1
              /\ result'.details.analysis_count = pipeline.analysis_count
              /\ pipeline'.analysis_count = Len(arrivals')
       /\ call'.op = "analyze" /\ result'.decision = "ERROR" =>
              pipeline'.analysis_count = pipeline.analysis_count
       /\ call'.op = "reset" => pipeline'.analysis_count = 0]_vars

\* the second analysis, after a call that did not count
C28_Witness ==
    /\ Analysed
    /\ ops = 3
    /\ pipeline.weights = FUSION_WEIGHTS
    /\ Len(arrivals) = 2
    /\ pipeline.analysis_count = 2
    /\ result.details.analysis_count = 1

\* C29: reset() keeps static configuration: it leaves the fusion engine's
\* current weights (including weights changed at runtime by update_weights),
\* the decision thresholds and the memory model's attack-signature table
\* (including signatures added at runtime by add_attack_signature) exactly
\* as they were, while setting analysis_count to 0.  The thresholds are
\* class attributes of AIEngineConfig that no call assigns; the first record
\* after a reset carries the count 0.
C29_ResetKeepsConfiguration ==
    [][/\ call'.op = "reset" =>
              /\ pipeline'.weights = pipeline.weights
              /\ pipeline'.attack_signatures = pipeline.attack_signatures
              /\ pipeline'.analysis_count = 0
       /\ call.op = "reset" /\ call'.op = "analyze" /\ result'.decision # "ERROR" =>
              result'.details.analysis_count = 0]_vars

\* a reset after an analysis, with changed weights and an added signature
C29_Witness ==
    /\ call.op = "reset"
    /\ result.decision \in {"SAFE", "WARNING", "CRITICAL"}
    /\ Len(pipeline.attack_signatures) = Len(InitialAttackSignatures) + 1
    /\ pipeline.weights # FUSION_WEIGHTS
    /\ pipeline.analysis_count = 0
    /\ pipeline.telemetry_history = << >>

\* the last call returned a decision with its explanation: an analysis, or
\* a fusion of outputs handed to fuse
Explained == Analysed \/ call.op = "fuse"

\* the score and the reason a model gave in the last call, and the primary
\* threat named there
ScoreOf(m) ==
    IF call.op = "fuse" THEN call.input[m].score ELSE result.model_outputs[m]
ReasonOf(m) ==
    IF call.op = "fuse" THEN call.input[m].reason
    ELSE result.details.individual_reasons[m]
PrimaryThreat ==
    IF call.op = "fuse" THEN result.primary_threat
    ELSE result.details.primary_threat

\* what the explanation may look for in a model
MinorConcern(m) == 10 * ScoreOf(m) > SC /\ 10 * ScoreOf(m) < 3 * SC
Supporting(m) == m # PrimaryThreat /\ 10 * ScoreOf(m) > 2 * SC
HighThreat(m) == 10 * ScoreOf(m) > 5 * SC

\* the place, in the order anomaly, fdia, physics, behavior, memory, of the
\* first model with the property
FirstPlace(P(_)) ==
    CHOOSE i \in 1..5 : P(ModelNames[i]) /\ \A j \in 1..(i - 1) : ~P(ModelNames[j])

SafeExplained ==
    IF \E m \in Models : MinorConcern(m)
    THEN result.explanation =
             [kind |-> "safe_minor_variance",
              reasons |-> <<ReasonOf(ModelNames[FirstPlace(MinorConcern)])>>,
              count |-> 0]
    ELSE result.explanation =
             [kind |-> "safe_no_threats", reasons |-> << >>, count |-> 0]

WarningExplained ==
    IF \E m \in Models : Supporting(m)
    THEN result.explanation =
             [kind |-> "warning_supported",
              reasons |-> <<ReasonOf(PrimaryThreat),
                            ReasonOf(ModelNames[FirstPlace(Supporting)])>>,
              count |-> 0]
    ELSE result.explanation =
             [kind |-> "warning", reasons |-> <<ReasonOf(PrimaryThreat)>>,
              count |-> 0]

CriticalExplained ==
    IF Cardinality({m \in Models : HighThreat(m)}) > 1
    THEN result.explanation =
             [kind |-> "critical_multiple",
              reasons |-> <<ReasonOf(PrimaryThreat)>>,
              count |-> Cardinality({m \in Models : HighThreat(m)})]
    ELSE result.explanation =
             [kind |-> "critical", reasons |-> <<ReasonOf(PrimaryThreat)>>,
              count |-> 0]

\* C30: the explanation is chosen by decision with first-match-wins in the
\* fixed model order anomaly, fdia, physics, behavior, memory: for SAFE it
\* cites the first model whose score is strictly between 0.1 and 0.3, else
\* reports no threats; for WARNING it cites the primary threat's reason plus
\* the first other model scoring > 0.2, if any; for CRITICAL it cites the
\* primary threat's reason and, only when more than one model scores > 0.5,
\* the number of such models.
C30_ExplanationIsFirstMatch ==
    Explained =>
        /\ result.decision = "SAFE" => SafeExplained
        /\ result.decision = "WARNING" => WarningExplained
        /\ result.decision = "CRITICAL" => CriticalExplained

\* a warning with two supporting models behind the primary threat, the
\* earlier one in the model order cited; a model at exactly 0.2 is passed over
C30_Witness ==
    /\ Explained
    /\ result.decision = "WARNING"
    /\ Cardinality({m \in Models : Supporting(m)}) >= 2
    /\ ScoreOf("anomaly") = 2000
    /\ result.explanation.kind = "warning_supported"
    /\ result.explanation.reasons[2] = ReasonOf(ModelNames[FirstPlace(Supporting)])
    /\ \E m \in Models :
           Supporting(m) /\ ReasonOf(m) # result.explanation.reasons[2]

\* SAFE with two minor concerns, the first cited
C30_WitnessSafeTwoMinor ==
    /\ Explained
    /\ result.decision = "SAFE"
    /\ Cardinality({m \in Models : MinorConcern(m)}) >= 2
    /\ result.explanation.kind = "safe_minor_variance"
    /\ \E m \in Models :
           MinorConcern(m) /\ ReasonOf(m) # result.explanation.reasons[1]

\* SAFE with scores of 0.3 and no minor concern
C30_WitnessSafeNoThreats ==
    /\ Explained
    /\ result.decision = "SAFE"
    /\ \E m \in Models : ScoreOf(m) = 3000
    /\ result.explanation.kind = "safe_no_threats"

C30_WitnessCriticalMultiple ==
    /\ Explained
    /\ result.decision = "CRITICAL"
    /\ result.explanation.kind = "critical_multiple"
    /\ result.explanation.count >= 2

\* CRITICAL with one model above 0.5 and others at exactly 0.5
C30_WitnessCriticalSingle ==
    /\ Explained
    /\ result.decision = "CRITICAL"
    /\ \E m \in Models : ScoreOf(m) = 5000
    /\ result.explanation.kind = "critical"

====
